---- MODULE Spec2Model ----
(***************************************************************************)
(* PatchPeek: the release cache and refresh engine of the etag-cache       *)
(* server (src/unnamed/part_009, lines 290-617).                           *)
(*                                                                         *)
(* Node runs one event loop: the code between two awaits on I/O (a file    *)
(* read or write, a fetch) runs without interruption.  Every action below  *)
(* is one such stretch: it starts when an I/O completes and runs the       *)
(* handler, and every promise continuation that needs no further I/O, up   *)
(* to the next await on I/O.                                               *)
(*                                                                         *)
(* Time is in milliseconds as in the code (Date.now(), getTime()); the     *)
(* clock and the publication dates are whole days.                         *)
(***************************************************************************)
EXTENDS Integers, Sequences, FiniteSets, TLC

\* ------------------------------------------------------------------ bounds
MaxNow == 3          \* the clock runs from day 2 to day MaxNow
MaxDays == 2         \* lookback windows 1..MaxDays
MaxVersion == 2      \* upstream versions 1..MaxVersion; version v lists releases 1..v+1

\* --------------------------------------------------------- program constants
DayMs == 86400000

Widget == "acme/widget"
Gadget == "acme/gadget"
Ghost == "acme/ghost"          \* a slug GitHub has no repository for
Repos == {Widget, Gadget}
SeqOfRepos == <<Widget, Gadget>>
NoEtag == 0                    \* headers.get("etag") === null / no etag cached
NoHtml == ""

\* ------------------------------------------------------------ the upstream
RepoNo(repo) == IF repo = Widget THEN 1 ELSE 2

\* Release k of a repo, published on day k.  Of every three releases of a
\* repo the second is a prerelease (widget) or a draft (gadget); the other
\* releases of gadget have no body.
ReleaseOf(repo, k) ==
  [ id           |-> 10 * RepoNo(repo) + k,
    name         |-> IF k % 2 = 0 THEN "" ELSE "Release " \o ToString(k),
    tag_name     |-> "v" \o ToString(k),
    published_at |-> k * DayMs,
    draft        |-> (k % 3 = 2) /\ repo = Gadget,
    prerelease   |-> (k % 3 = 2) /\ repo = Widget,
    body         |-> IF k % 3 = 2 THEN "beta"
                     ELSE IF repo = Widget
                       THEN (IF k % 3 = 1 THEN "Breaking Change: a<b&c" ELSE "fix")
                       ELSE "" ]

\* GET /repos/:repo/releases at upstream version v: releases 1..v+1, newest
\* first.
UpstreamList(repo, v) == [i \in 1..(v + 1) |-> ReleaseOf(repo, v + 2 - i)]

\* ----------------------------------------------------------- pure helpers
\* feeds.includes(repo)
Includes(feeds, repo) == \E i \in 1..Len(feeds) : feeds[i] = repo

isValidRelease(release, cutoff) ==
  ~release.draft /\ ~release.prerelease /\ release.published_at >= cutoff

filterRecentReleasesByDate(releases, cutoff) ==
  SelectSeq(releases, LAMBDA release : release.published_at >= cutoff)

filterRecentReleases(releases, cutoff) ==
  SelectSeq(releases, LAMBDA release : isValidRelease(release, cutoff))

\* loadConfigAndCutoff: cutoff = Date.now() - config.daysWindow * 86400000
CutoffOf(nowMs, daysWindow) == nowMs - daysWindow * DayMs

Ids(releases) == {releases[i].id : i \in 1..Len(releases)}

\* ------------------------------------------------------------- cleanCache
\* second loop of cleanCache, for one repo that has a cache entry
cleanEntryLag(entry, cutoff) ==
  LET recent == SelectSeq(entry.releases, LAMBDA release : release.published_at >= cutoff)
      ids == Ids(entry.releases)
  IN  [entry EXCEPT !.releases = recent,
                    !.rendered = [k \in (DOMAIN entry.rendered) \cap ids |-> entry.rendered[k]]]

cleanEntryKeepKeys(entry, cutoff) ==
  [entry EXCEPT !.releases = SelectSeq(@, LAMBDA release : release.published_at >= cutoff)]

cleanEntry(entry, cutoff) ==
  LET recent == SelectSeq(entry.releases, LAMBDA release : release.published_at >= cutoff)
      ids == Ids(recent)
  IN  [entry EXCEPT !.releases = recent,
                    !.rendered = [k \in (DOMAIN entry.rendered) \cap ids |-> entry.rendered[k]]]

cleanCache(c, feeds, cutoff) ==
  [repo \in {r \in DOMAIN c : Includes(feeds, r)} |-> cleanEntry(c[repo], cutoff)]

\* ----------------------------------------------------------- fetchReleases
\* the If-None-Match header of the request (NoEtag: header not sent)
IfNoneMatchAlways(c, repo, force) ==
  IF repo \in DOMAIN c /\ c[repo].etag # NoEtag THEN c[repo].etag ELSE NoEtag

IfNoneMatch(c, repo, force) ==
  IF ~force /\ repo \in DOMAIN c /\ c[repo].etag # NoEtag THEN c[repo].etag ELSE NoEtag

\* What the releases endpoint can answer to a request carrying `inm` while
\* the repo is at version v (the etag of version v is v).
Responses(repo, v, inm) ==
  { IF inm # NoEtag /\ inm = v
      THEN [status |-> 304, remaining |-> "59", etag |-> v, releases |-> <<>>]
      ELSE [status |-> 200, remaining |-> "59", etag |-> v, releases |-> UpstreamList(repo, v)],
    [status |-> 403, remaining |-> "0",  etag |-> NoEtag, releases |-> <<>>],
    [status |-> 403, remaining |-> "59", etag |-> NoEtag, releases |-> <<>>],
    [status |-> 404, remaining |-> "59", etag |-> NoEtag, releases |-> <<>>] }

ResOk(res) == res.status >= 200 /\ res.status <= 299

\* fetchReleases from the response on: the cache after it, what it threw
\* ("" when it returned) and the release list it returned.
fetchReleasesRewrite304(c, repo, res) ==
  IF res.status = 304 THEN
    IF repo \in DOMAIN c
      THEN [cache |-> [c EXCEPT ![repo] = [@ EXCEPT !.etag = res.etag, !.rendered = <<>>]],
            threw |-> "", releases |-> c[repo].releases]
      ELSE [cache |-> c, threw |-> "TypeError", releases |-> <<>>]
  ELSE IF res.status = 403 /\ res.remaining = "0" THEN
    [cache |-> c, threw |-> "rateLimited", releases |-> <<>>]
  ELSE IF ~ResOk(res) THEN
    [cache |-> c, threw |-> "error", releases |-> <<>>]
  ELSE
    [cache |-> (repo :> [etag |-> res.etag, releases |-> res.releases,
                         rendered |-> IF repo \in DOMAIN c THEN c[repo].rendered ELSE <<>>,
                         promise  |-> IF repo \in DOMAIN c THEN c[repo].promise ELSE {}]) @@ c,
     threw |-> "", releases |-> res.releases]

fetchReleasesFreshEntry(c, repo, res) ==
  IF res.status = 304 THEN
    IF repo \in DOMAIN c
      THEN [cache |-> c, threw |-> "", releases |-> c[repo].releases]
      ELSE [cache |-> c, threw |-> "TypeError", releases |-> <<>>]
  ELSE IF res.status = 403 /\ res.remaining = "0" THEN
    [cache |-> c, threw |-> "rateLimited", releases |-> <<>>]
  ELSE IF ~ResOk(res) THEN
    [cache |-> c, threw |-> "error", releases |-> <<>>]
  ELSE
    [cache |-> (repo :> [etag |-> res.etag, releases |-> res.releases,
                         rendered |-> <<>>, promise |-> {}]) @@ c,
     threw |-> "", releases |-> res.releases]

fetchReleasesDropOnError(c, repo, res) ==
  IF res.status = 304 THEN
    IF repo \in DOMAIN c
      THEN [cache |-> c, threw |-> "", releases |-> c[repo].releases]
      ELSE [cache |-> c, threw |-> "TypeError", releases |-> <<>>]
  ELSE IF res.status = 403 /\ res.remaining = "0" THEN
    [cache |-> [r \in DOMAIN c \ {repo} |-> c[r]], threw |-> "rateLimited", releases |-> <<>>]
  ELSE IF ~ResOk(res) THEN
    [cache |-> [r \in DOMAIN c \ {repo} |-> c[r]], threw |-> "error", releases |-> <<>>]
  ELSE
    [cache |-> (repo :> [etag |-> res.etag, releases |-> res.releases,
                         rendered |-> IF repo \in DOMAIN c THEN c[repo].rendered ELSE <<>>,
                         promise  |-> IF repo \in DOMAIN c THEN c[repo].promise ELSE {}]) @@ c,
     threw |-> "", releases |-> res.releases]

fetchReleasesDone(c, repo, res) ==
  IF res.status = 304 THEN
    IF repo \in DOMAIN c
      THEN [cache |-> c, threw |-> "", releases |-> c[repo].releases]
      ELSE [cache |-> c, threw |-> "TypeError", releases |-> <<>>]
  ELSE IF res.status = 403 /\ res.remaining = "0" THEN
    [cache |-> c, threw |-> "rateLimited", releases |-> <<>>]
  ELSE IF ~ResOk(res) THEN
    [cache |-> c, threw |-> "error", releases |-> <<>>]
  ELSE
    [cache |-> (repo :> [etag |-> res.etag, releases |-> res.releases,
                         rendered |-> IF repo \in DOMAIN c THEN c[repo].rendered ELSE <<>>,
                         promise  |-> IF repo \in DOMAIN c THEN c[repo].promise ELSE {}]) @@ c,
     threw |-> "", releases |-> res.releases]

\* ------------------------------------------------------------------ fetchMd
\* The characters of the release bodies (TLC cannot index a string).
Chars(md) ==
  CASE md = "Breaking Change: a<b&c" ->
         <<"B","r","e","a","k","i","n","g"," ","C","h","a","n","g","e",":"," ","a","<","b","&","c">>
    [] md = "beta"    -> <<"b","e","t","a">>
    [] md = "fix"     -> <<"f","i","x">>
    [] OTHER          -> <<>>

RECURSIVE Join(_)
Join(chars) == IF chars = <<>> THEN "" ELSE Head(chars) \o Join(Tail(chars))

\* String.prototype.replace(/ch/g, rep) on a sequence of characters
RECURSIVE ReplaceAll(_, _, _)
ReplaceAll(chars, ch, rep) ==
  IF chars = <<>> THEN <<>>
  ELSE (IF Head(chars) = ch THEN rep ELSE <<Head(chars)>>) \o ReplaceAll(Tail(chars), ch, rep)

EscapeHtml(md) ==
  Join(ReplaceAll(ReplaceAll(ReplaceAll(Chars(md), "&", <<"&","a","m","p",";">>),
                             "<", <<"&","l","t",";">>),
                  ">", <<"&","g","t",";">>))

\* What fetchMd resolves to once the markdown endpoint answered `kind`:
\* "ok" (res.text()), "rl" (403 with x-ratelimit-remaining 0), "err" (!res.ok).
\* When fetch itself rejects ("neterr": no answer) fetchMd rejects.
fetchMdHtml(md, kind) ==
  IF kind = "ok" THEN "<p>" \o md \o "</p>"
  ELSE "<pre>" \o EscapeHtml(md) \o "</pre>"

\* ------------------------------------------------------------- hasWarning
keywords ==
  << <<"b","r","e","a","k","i","n","g"," ","c","h","a","n","g","e">>,
     <<"b","r","e","a","k","i","n","g"," ","c","h","a","n","g","e","s">>,
     <<"c","a","u","t","i","o","n">>,
     <<"i","m","p","o","r","t","a","n","t">> >>

UpperCase == <<"A","B","C","D","E","F","G","H","I","J","K","L","M",
               "N","O","P","Q","R","S","T","U","V","W","X","Y","Z">>
LowerCase == <<"a","b","c","d","e","f","g","h","i","j","k","l","m",
               "n","o","p","q","r","s","t","u","v","w","x","y","z">>

toLowerCase(chars) ==
  [i \in 1..Len(chars) |->
     IF \E j \in 1..Len(UpperCase) : UpperCase[j] = chars[i]
       THEN LowerCase[CHOOSE j \in 1..Len(UpperCase) : UpperCase[j] = chars[i]]
       ELSE chars[i]]

\* String.prototype.includes
StrIncludes(chars, kw) ==
  \E i \in 0..(Len(chars) - Len(kw)) : SubSeq(chars, i + 1, i + Len(kw)) = kw

hasWarningCaseSensitive(chars) ==
  \E k \in 1..Len(keywords) : StrIncludes(chars, keywords[k])

hasWarningChars(chars) ==
  \E k \in 1..Len(keywords) : StrIncludes(toLowerCase(chars), keywords[k])

\* hasWarning of a body that can be missing (release.body null or undefined):
\* text?.toLowerCase().includes(kw) is then undefined for every keyword.
hasWarningOpt(text) == IF text.present THEN hasWarningChars(text.chars) ELSE FALSE

hasWarning(text) == hasWarningChars(Chars(text))

\* ---------------------------------------------------------- renderHomepage
Loading == "<i>Loading...</i>"

TruthyNever(rendered, id) == FALSE

\* rendered[id] is truthy
Truthy(rendered, id) == id \in DOMAIN rendered /\ rendered[id] # NoHtml

feedDataOfAllCached(repo, c, cutoff) ==
  LET releases == IF repo \in DOMAIN c THEN c[repo].releases ELSE <<>>
      recent   == filterRecentReleases(releases, cutoff)
  IN  [project       |-> repo,
       releases      |-> [i \in 1..Len(recent) |->
                            [title   |-> IF recent[i].name # "" THEN recent[i].name
                                         ELSE recent[i].tag_name,
                             date    |-> recent[i].published_at \div DayMs,
                             html    |-> Loading,
                             flagged |-> hasWarning(recent[i].body)]],
       releaseCount  |-> Len(releases),
       breakingCount |-> Len(SelectSeq(releases, LAMBDA release : hasWarning(release.body)))]

\* feedData of one repo
feedDataOf(repo, c, cutoff) ==
  LET recent   == filterRecentReleases(IF repo \in DOMAIN c THEN c[repo].releases ELSE <<>>, cutoff)
      rendered == IF repo \in DOMAIN c THEN c[repo].rendered ELSE <<>>
      mapped   == [i \in 1..Len(recent) |->
                     [title   |-> IF recent[i].name # "" THEN recent[i].name ELSE recent[i].tag_name,
                      date    |-> recent[i].published_at \div DayMs,
                      html    |-> IF Truthy(rendered, recent[i].id)
                                    THEN rendered[recent[i].id] ELSE Loading,
                      flagged |-> hasWarning(recent[i].body)]]
      display  == SelectSeq(mapped, LAMBDA release : release.html # NoHtml)
  IN  [project       |-> repo,
       releases      |-> display,
       releaseCount  |-> Len(display),
       breakingCount |-> Len(SelectSeq(display, LAMBDA release : release.flagged))]

\* the comparator of feedsWithReleases.sort: negative when a sorts before b
compareFeeds(a, b) ==
  IF b.breakingCount = a.breakingCount
    THEN b.releaseCount - a.releaseCount
    ELSE b.breakingCount - a.breakingCount

\* Array.prototype.sort is stable: insert each element after the elements
\* that do not sort after it.
RECURSIVE InsertSorted(_, _)
InsertSorted(sorted, x) ==
  IF sorted = <<>> THEN <<x>>
  ELSE IF compareFeeds(Head(sorted), x) <= 0
         THEN <<Head(sorted)>> \o InsertSorted(Tail(sorted), x)
         ELSE <<x>> \o sorted

RECURSIVE SortFeeds(_)
SortFeeds(fs) ==
  IF fs = <<>> THEN <<>>
  ELSE InsertSorted(SortFeeds(SubSeq(fs, 1, Len(fs) - 1)), fs[Len(fs)])

\* the locals res.render("index", ...) receives
renderHomepage(cfg, c, t, rlh, lut, errorMessage) ==
  LET cutoff   == CutoffOf(t, cfg.daysWindow)
      feedData == [i \in 1..Len(cfg.feeds) |-> feedDataOf(cfg.feeds[i], c, cutoff)]
  IN  [rateLimitHit      |-> rlh,
       isAuthenticated   |-> cfg.githubToken # "",
       feedsList         |-> cfg.feeds,
       feedsWithReleases |-> SortFeeds(SelectSeq(feedData, LAMBDA f : f.releaseCount > 0)),
       daysWindow        |-> cfg.daysWindow,
       lastUpdateTime    |-> lut,
       now               |-> t,
       errorMessage      |-> errorMessage]

\* ---------------------------------------------------------------- index.ejs
indexEjsAsGiven(feed) == feed.releases

\* the releases of one feed in the order the template lists them:
\* [...breaking, ...normal]
indexEjsReleases(feed) ==
  SelectSeq(feed.releases, LAMBDA release : release.flagged)
    \o SelectSeq(feed.releases, LAMBDA release : ~release.flagged)

\* what the feedsWithReleases loop of the template lists
indexEjs(locals) ==
  [i \in 1..Len(locals.feedsWithReleases) |->
     [locals.feedsWithReleases[i] EXCEPT !.releases = indexEjsReleases(locals.feedsWithReleases[i])]]

\* =================================================== the etag-cache server
VARIABLES
  cfgFile,        \* data/config.json: [feeds, daysWindow, githubToken]
  now,            \* Date.now()
  upstream,       \* upstream[repo]: the version GitHub serves for the repo
  cache,          \* const cache = {}: repo -> [etag, releases, rendered, promise]
                  \*   rendered: release id -> html; promise: the ids that have
                  \*   a promise_<id> key in the same rendered object
  calls,          \* POSTs to /markdown in flight (the pending fetchMd promises)
  slots,          \* the handlers in flight, each at its await
  rateLimitHit,
  lastUpdateTime,
  listening,      \* app.listen was called and the interval timer is installed
  out,            \* what the last step put out: a page, the runs of updateAllFeeds
                  \*   it completed (with the answer of the markdown endpoint that
                  \*   completed them, if one did), or the POST /remove-feed it
                  \*   completed
  probe           \* the call under test, in the specifications of one function

vars == <<cfgFile, now, upstream, cache, calls, slots, rateLimitHit, lastUpdateTime,
          listening, out, probe>>

\* Two handlers (requests, timer callbacks) can be in flight at a time.
Procs == {1, 2}

NoCfg == [feeds |-> <<>>, daysWindow |-> 0, githubToken |-> ""]

IdleSlot ==
  [kind |-> "idle", pc |-> "idle", repo |-> "", cfg |-> NoCfg, error |-> "",
   force |-> FALSE, feeds |-> <<>>, cutoff |-> 0, pf |-> <<>>]

NoPage == renderHomepage(NoCfg, <<>>, 0, FALSE, 0, "")
NoCall == [repo |-> "", id |-> 0, md |-> "", kind |-> ""]
NoOut == [kind |-> "", page |-> NoPage, view |-> <<>>, runs |-> <<>>, call |-> NoCall]
NoRes == [status |-> 0, remaining |-> "", etag |-> NoEtag, releases |-> <<>>]
NoProbe == [op |-> "", n |-> 0, repo |-> "", force |-> FALSE, inm |-> NoEtag, res |-> NoRes,
            feeds |-> <<>>, cutoff |-> 0, pre |-> <<>>, post |-> <<>>,
            threw |-> "", releases |-> <<>>]

\* The initiator of the pending fetchMd promise stored under promise_<id>
\* in the repo's current rendered object.
LiveBy(cs, repo, id) ==
  (CHOOSE c \in cs : c.repo = repo /\ c.id = id /\ c.live).by

\* The promise stored under promise_<id> is pending; a promise_<id> key with
\* no pending call is a promise that was rejected.
Pending(cs, repo, id) == \E c \in cs : c.repo = repo /\ c.id = id /\ c.live

\* A deleted cache[repo] takes its rendered object with it: the promises
\* stored in it stay pending, reachable only from the fetchCache calls that
\* hold the old object.
Orphaned(cs, c) == {[x EXCEPT !.live = x.live /\ x.repo \in DOMAIN c] : x \in cs}

\* The fetchCache calls awaiting such a promise keep awaiting it.
OrphanedWaits(ss, c) ==
  [q \in DOMAIN ss |->
     [ss[q] EXCEPT !.pf = [i \in 1..Len(ss[q].pf) |->
        [ss[q].pf[i] EXCEPT !.wait =
           {[w EXCEPT !.live = w.live /\ ss[q].feeds[i] \in DOMAIN c] : w \in @}]]]]

\* processFeed from the return of fetchReleases to its await on the renders:
\* the two filters, and fetchCache for every release to render.  A fetchCache
\* that finds a rejected promise rejects, and with it Promise.all.
processFetched(c, cs, p, repo, releases, cutoff) ==
  LET recent   == SelectSeq(releases, LAMBDA release : isValidRelease(release, cutoff))
      entry    == c[repo]
      toRender == {recent[j] : j \in {k \in 1..Len(recent) : ~Truthy(entry.rendered, recent[k].id)}}
      joined   == {r \in toRender : r.id \in entry.promise /\ Pending(cs, repo, r.id)}
      rejected == {r \in toRender : r.id \in entry.promise /\ ~Pending(cs, repo, r.id)}
      empties  == {r.id : r \in {x \in toRender : x.id \notin entry.promise /\ x.body = ""}}
      started  == {r \in toRender : r.id \notin entry.promise /\ r.body # ""}
  IN  [cache |-> [c EXCEPT ![repo] =
                    [entry EXCEPT
                       !.rendered = [k \in (DOMAIN entry.rendered) \cup empties |->
                                       IF k \in empties THEN NoHtml ELSE entry.rendered[k]],
                       !.promise  = entry.promise \cup {r.id : r \in started}]],
       calls |-> cs \cup {[repo |-> repo, id |-> r.id, by |-> p, live |-> TRUE, md |-> r.body]
                            : r \in started},
       wait  |-> {[id |-> r.id, by |-> LiveBy(cs, repo, r.id), live |-> TRUE] : r \in joined}
                 \cup {[id |-> r.id, by |-> p, live |-> TRUE] : r \in started},
       threw |-> rejected # {}]

Final == {"ok", "fail", "rl"}

RunDone(slot) == slot.pc = "run" /\ \A i \in 1..Len(slot.pf) : slot.pf[i].st \in Final

everyRateLimited(pf) == \A i \in 1..Len(pf) : pf[i].st = "rl"

\* results.some((release) => release.rateLimited)
someRateLimited(pf) == \E i \in 1..Len(pf) : pf[i].st = "rl"

updateAllFeedsRethrows(err) == IF err = "" THEN "done" ELSE "threw"

\* How updateAllFeeds ends when its try block ended with `err` ("" when it
\* threw nothing): the catch block logs and swallows, so the promise resolves.
updateAllFeedsEnd(err) == IF err = "" THEN "done" ELSE "caught"

\* updateAllFeeds from the return of Promise.all on: rateLimitHit, cleanCache,
\* the finally block, and the caller's continuation (setInterval and
\* app.listen at startup, res.redirect in a route).
FinishRun(W, p, t) ==
  LET slot == W.slots[p]
      c2   == cleanCache(W.cache, slot.feeds, slot.cutoff)
  IN  [cache          |-> c2,
       calls          |-> Orphaned(W.calls, c2),
       slots          |-> OrphanedWaits([W.slots EXCEPT ![p] = IdleSlot], c2),
       rateLimitHit   |-> someRateLimited(slot.pf),
       lastUpdateTime |-> t,
       listening      |-> W.listening \/ slot.kind = "startup",
       done           |-> Append(W.done, [slot EXCEPT !.pc = updateAllFeedsEnd("")]),
       call           |-> W.call]

\* The runs whose last processFeed has returned finish, in the order `order`.
RECURSIVE Settle(_, _, _)
Settle(W, order, t) ==
  IF order = <<>> THEN W
  ELSE Settle(IF RunDone(W.slots[Head(order)]) THEN FinishRun(W, Head(order), t) ELSE W,
              Tail(order), t)

World == [cache |-> cache, calls |-> calls, slots |-> slots, rateLimitHit |-> rateLimitHit,
          lastUpdateTime |-> lastUpdateTime, listening |-> listening, done |-> <<>>,
          call |-> NoCall]

Commit(W) ==
  /\ cache' = W.cache
  /\ calls' = W.calls
  /\ slots' = W.slots
  /\ rateLimitHit' = W.rateLimitHit
  /\ lastUpdateTime' = W.lastUpdateTime
  /\ listening' = W.listening
  /\ out' = IF W.done = <<>> THEN NoOut
            ELSE [NoOut EXCEPT !.kind = "run", !.runs = W.done, !.call = W.call]

\* ---------------------------------------------------------------- refresh
\* updateAllFeeds(force) at the return of loadConfigAndCutoff: one processFeed
\* per configured repo, each up to the await on its fetch.
Load(p) ==
  /\ slots[p].pc = "load"
  /\ LET feeds == cfgFile.feeds
         slot  == [slots[p] EXCEPT
                     !.pc = "run",
                     !.feeds = feeds,
                     !.cutoff = CutoffOf(now, cfgFile.daysWindow),
                     !.pf = [i \in 1..Len(feeds) |->
                               [st |-> "fetch",
                                inm |-> IfNoneMatch(cache, feeds[i], slots[p].force),
                                got |-> 0, wait |-> {}]]]
     IN  Commit(Settle([World EXCEPT !.slots = [slots EXCEPT ![p] = slot]], <<p>>, now))
  /\ UNCHANGED <<cfgFile, now, upstream, probe>>

\* loadConfigAndCutoff rejects in updateAllFeeds (readConfig cannot create
\* the directory or write the file): the catch block, the finally block, and
\* the caller's continuation.
LoadFailed(p) ==
  /\ slots[p].pc = "load"
  /\ slots' = [slots EXCEPT ![p] = IdleSlot]
  /\ lastUpdateTime' = now
  /\ listening' = (listening \/ slots[p].kind = "startup")
  /\ out' = [NoOut EXCEPT !.kind = "run",
                          !.runs = <<[slots[p] EXCEPT !.pc = updateAllFeedsEnd("readConfig")]>>]
  /\ UNCHANGED <<cfgFile, now, upstream, cache, calls, rateLimitHit, probe>>

\* The releases endpoint answers the fetch of processFeed number i of run p.
FetchResp(p, i) ==
  /\ slots[p].pc = "run"
  /\ i \in 1..Len(slots[p].pf)
  /\ slots[p].pf[i].st = "fetch"
  /\ \E res \in Responses(slots[p].feeds[i], upstream[slots[p].feeds[i]], slots[p].pf[i].inm) :
       LET repo == slots[p].feeds[i]
           f    == fetchReleasesDone(cache, repo, res)
           g    == processFetched(f.cache, calls, p, repo, f.releases, slots[p].cutoff)
           pf   == IF f.threw = "rateLimited" THEN [slots[p].pf[i] EXCEPT !.st = "rl"]
                   ELSE IF f.threw # "" THEN [slots[p].pf[i] EXCEPT !.st = "fail"]
                   ELSE [slots[p].pf[i] EXCEPT
                           !.st = IF g.threw THEN "fail"
                                  ELSE IF g.wait = {} THEN "ok" ELSE "render",
                           !.got = IF res.status = 200 THEN res.etag ELSE 0,
                           !.wait = IF g.threw THEN {} ELSE g.wait]
           W    == [World EXCEPT
                      !.cache = IF f.threw = "" THEN g.cache ELSE f.cache,
                      !.calls = IF f.threw = "" THEN g.calls ELSE calls,
                      !.slots = [slots EXCEPT ![p].pf[i] = pf]]
       IN  Commit(Settle(W, <<p>>, now))
  /\ UNCHANGED <<cfgFile, now, upstream, probe>>

\* pf after the promise of call c settled: a processFeed that awaited nothing
\* else goes on to build its result, which reads cache[repo].rendered; when
\* the promise was rejected, Promise.all rejects and processFeed returns its
\* placeholder at once.
Woken(pf, repo, c, cacheNow, kind) ==
  IF repo = c.repo /\ pf.st = "render" /\ [id |-> c.id, by |-> c.by, live |-> c.live] \in pf.wait
    THEN LET w == pf.wait \ {[id |-> c.id, by |-> c.by, live |-> c.live]}
         IN  IF kind = "neterr" THEN [pf EXCEPT !.wait = {}, !.st = "fail"]
             ELSE [pf EXCEPT !.wait = w,
                             !.st = IF w # {} THEN "render"
                                    ELSE IF repo \in DOMAIN cacheNow THEN "ok" ELSE "fail"]
    ELSE pf

\* The markdown endpoint answers call c: fetchMd returns, the fetchCache that
\* started it stores the html in the rendered object it holds, and every
\* fetchCache awaiting the promise returns; the run that started the call is
\* the first to go on.  When the promise is rejected the fetchCache that
\* started the call stores nothing and leaves the promise_<id> key.
RenderResp(c, kind) ==
  /\ c \in calls
  /\ LET html == fetchMdHtml(c.md, kind)
         c1   == IF c.live /\ kind # "neterr"
                   THEN [cache EXCEPT ![c.repo] =
                           [@ EXCEPT !.rendered = (c.id :> html) @@ @,
                                     !.promise = @ \ {c.id}]]
                   ELSE cache
         s1   == [q \in Procs |->
                    [slots[q] EXCEPT !.pf = [i \in 1..Len(slots[q].pf) |->
                        Woken(slots[q].pf[i], slots[q].feeds[i], c, c1, kind)]]]
         W    == [World EXCEPT !.cache = c1, !.calls = calls \ {c}, !.slots = s1,
                               !.rateLimitHit = rateLimitHit \/ kind = "rl",
                               !.call = [repo |-> c.repo, id |-> c.id, md |-> c.md,
                                         kind |-> kind]]
         rest == CHOOSE q \in Procs : q # c.by
     IN  Commit(Settle(W, <<c.by, rest>>, now))
  /\ UNCHANGED <<cfgFile, now, upstream, probe>>

\* ------------------------------------------------------------ environment
Tick ==
  /\ now < MaxNow * DayMs
  /\ now' = now + DayMs
  /\ out' = NoOut
  /\ UNCHANGED <<cfgFile, upstream, cache, calls, slots, rateLimitHit, lastUpdateTime,
                 listening, probe>>

Publish(repo) ==
  /\ upstream[repo] < MaxVersion
  /\ (upstream[repo] + 2) * DayMs <= now
  /\ upstream' = [upstream EXCEPT ![repo] = @ + 1]
  /\ out' = NoOut
  /\ UNCHANGED <<cfgFile, now, cache, calls, slots, rateLimitHit, lastUpdateTime,
                 listening, probe>>

\* ----------------------------------------------------------------- routes
forceAlways(kind) == TRUE

\* the argument of updateAllFeeds in the caller `kind`
forceOf(kind) == kind = "update-days"

Idle == \A p \in Procs : slots[p].kind = "idle"

Free(p) == slots[p].kind = "idle" /\ \A q \in Procs : q < p => slots[q].kind # "idle"

AcceptsFromLoad == TRUE

\* Requests are accepted, and timer callbacks fire, once the startup function
\* has called setInterval and app.listen.
Accepts == listening

\* A request or a timer callback runs up to its first await.
Arrive(p, slot) ==
  /\ Accepts
  /\ Free(p)
  /\ slots' = [slots EXCEPT ![p] = slot]
  /\ out' = NoOut
  /\ UNCHANGED <<cfgFile, now, upstream, cache, calls, rateLimitHit, lastUpdateTime,
                 listening, probe>>

\* setInterval(updateAllFeeds, 60 * 60 * 1000)
Timer(p) ==
  Arrive(p, [IdleSlot EXCEPT !.kind = "timer", !.pc = "load", !.force = forceOf("timer")])

\* POST /update-days; days = 0 stands for a value that is NaN or not > 0
PostUpdateDays(p, days) ==
  Arrive(p, IF days > 0
              THEN [IdleSlot EXCEPT !.kind = "update-days", !.pc = "readCfg",
                                    !.cfg = [NoCfg EXCEPT !.daysWindow = days]]
              ELSE [IdleSlot EXCEPT !.kind = "update-days", !.pc = "load",
                                    !.force = forceOf("update-days")])

validFormat(token) == token = "" \/ token = "ghp_a"

PostUpdateToken(p, token) ==
  Arrive(p, IF validFormat(token)
              THEN [IdleSlot EXCEPT !.kind = "update-token", !.pc = "readCfg",
                                    !.cfg = [NoCfg EXCEPT !.githubToken = token]]
              ELSE [IdleSlot EXCEPT !.kind = "update-token", !.pc = "home",
                      !.error = "Invalid GitHub token format. Please check your token."])

PostAddFeed(p, repo) ==
  Arrive(p, [IdleSlot EXCEPT !.kind = "add-feed", !.pc = "readCfg", !.repo = repo])

PostRemoveFeed(p, repo) ==
  Arrive(p, [IdleSlot EXCEPT !.kind = "remove-feed", !.pc = "readCfg", !.repo = repo])

Without(feeds, repo) == SelectSeq(feeds, LAMBDA f : f # repo)

Home(slot, msg) == [IdleSlot EXCEPT !.kind = slot.kind, !.pc = "home", !.error = msg]

\* readConfig returns in a route
ReadCfg(p) ==
  /\ slots[p].pc = "readCfg"
  /\ LET slot == slots[p] IN
       slots' = [slots EXCEPT ![p] =
         CASE slot.kind = "add-feed" ->
                IF slot.repo = "" THEN Home(slot, "Repository is required")
                ELSE IF Includes(cfgFile.feeds, slot.repo)
                  THEN Home(slot, "Repository is already in your list")
                ELSE [slot EXCEPT !.pc = "exists", !.cfg = cfgFile]
           [] slot.kind = "remove-feed" ->
                [slot EXCEPT !.pc = "saveCfg",
                             !.cfg = [cfgFile EXCEPT !.feeds = Without(@, slot.repo)],
                             !.cutoff = CutoffOf(now, cfgFile.daysWindow)]
           [] slot.kind = "update-days" ->
                [slot EXCEPT !.pc = "saveCfg",
                             !.cfg = [cfgFile EXCEPT !.daysWindow = slot.cfg.daysWindow]]
           [] slot.kind = "update-token" ->
                [slot EXCEPT !.pc = "saveCfg",
                             !.cfg = [cfgFile EXCEPT !.githubToken = slot.cfg.githubToken]]]
  /\ out' = NoOut
  /\ UNCHANGED <<cfgFile, now, upstream, cache, calls, rateLimitHit, lastUpdateTime,
                 listening, probe>>

ExistsUnchecked(p, found) ==
  /\ slots[p].pc = "exists"
  /\ slots' = [slots EXCEPT ![p] =
                 [@ EXCEPT !.pc = "saveCfg", !.cfg.feeds = Append(@, slots[p].repo)]]
  /\ out' = NoOut
  /\ UNCHANGED <<cfgFile, now, upstream, cache, calls, rateLimitHit, lastUpdateTime,
                 listening, probe>>

\* repoExists returns in POST /add-feed: res.status === 200 or not
Exists(p, found) ==
  /\ slots[p].pc = "exists"
  /\ found => slots[p].repo \in Repos
  /\ slots' = [slots EXCEPT ![p] =
                 IF found THEN [@ EXCEPT !.pc = "saveCfg", !.cfg.feeds = Append(@, slots[p].repo)]
                 ELSE Home(slots[p], "GitHub repository not found")]
  /\ out' = NoOut
  /\ UNCHANGED <<cfgFile, now, upstream, cache, calls, rateLimitHit, lastUpdateTime,
                 listening, probe>>

\* saveConfig returns in a route
SaveCfg(p) ==
  /\ slots[p].pc = "saveCfg"
  /\ cfgFile' = slots[p].cfg
  /\ IF slots[p].kind = "remove-feed"
       THEN LET c2 == cleanCache(cache, slots[p].cfg.feeds, slots[p].cutoff) IN
            /\ cache' = c2
            /\ calls' = Orphaned(calls, c2)
            /\ slots' = OrphanedWaits([slots EXCEPT ![p] = IdleSlot], c2)
            /\ out' = [NoOut EXCEPT !.kind = "removed",
                                    !.runs = <<[slots[p] EXCEPT !.pc = "done",
                                                                !.feeds = slots[p].cfg.feeds]>>]
       ELSE /\ slots' = [slots EXCEPT ![p] =
                           [IdleSlot EXCEPT !.kind = slots[p].kind, !.pc = "load",
                                            !.force = forceOf(slots[p].kind)]]
            /\ out' = NoOut
            /\ UNCHANGED <<cache, calls>>
  /\ UNCHANGED <<now, upstream, rateLimitHit, lastUpdateTime, listening, probe>>

\* renderHomepage(res, errorMessage) at the return of loadConfigAndCutoff,
\* in a route that answers with an error
ErrorPage(p) ==
  /\ slots[p].pc = "home"
  /\ LET locals == renderHomepage(cfgFile, cache, now, rateLimitHit, lastUpdateTime,
                                  slots[p].error)
     IN  out' = [NoOut EXCEPT !.kind = "page", !.page = locals, !.view = indexEjs(locals)]
  /\ slots' = [slots EXCEPT ![p] = IdleSlot]
  /\ UNCHANGED <<cfgFile, now, upstream, cache, calls, rateLimitHit, lastUpdateTime,
                 listening, probe>>

GetHomeClearsFlag ==
  /\ Accepts
  /\ LET locals == renderHomepage(cfgFile, cache, now, rateLimitHit, lastUpdateTime, "")
     IN  out' = [NoOut EXCEPT !.kind = "page", !.page = locals, !.view = indexEjs(locals)]
  /\ rateLimitHit' = FALSE
  /\ UNCHANGED <<cfgFile, now, upstream, cache, calls, slots, lastUpdateTime,
                 listening, probe>>

\* GET /: renderHomepage(res) at the return of loadConfigAndCutoff
GetHome ==
  /\ Accepts
  /\ LET locals == renderHomepage(cfgFile, cache, now, rateLimitHit, lastUpdateTime, "")
     IN  out' = [NoOut EXCEPT !.kind = "page", !.page = locals, !.view = indexEjs(locals)]
  /\ UNCHANGED <<cfgFile, now, upstream, cache, calls, slots, rateLimitHit, lastUpdateTime,
                 listening, probe>>

\* ------------------------------------------------------------------- Spec
MdAnswers == {"ok", "err", "rl", "neterr"}

\* The server with both repos, its requests and timer callbacks arriving one
\* at a time: a handler starts when no other is in flight.  Widget publishes
\* releases while the server runs.
InitServer(feeds) ==
  /\ cfgFile = [feeds |-> feeds, daysWindow |-> 1, githubToken |-> ""]
  /\ now = 2 * DayMs
  /\ upstream = [repo \in Repos |-> 1]
  /\ cache = <<>>
  /\ calls = {}
  /\ slots = [p \in Procs |->
                IF p = 1 THEN [IdleSlot EXCEPT !.kind = "startup", !.pc = "load",
                                               !.force = forceOf("startup")]
                ELSE IdleSlot]
  /\ rateLimitHit = FALSE
  /\ lastUpdateTime = 0
  /\ listening = FALSE
  /\ out = NoOut
  /\ probe = NoProbe

Init == InitServer(<<Widget, Gadget>>)

Next ==
  \/ \E p \in Procs : Load(p)
  \/ \E p \in Procs : LoadFailed(p)
  \/ \E p \in Procs, i \in 1..Cardinality(Repos) : FetchResp(p, i)
  \/ \E c \in calls, kind \in MdAnswers : RenderResp(c, kind)
  \/ Tick
  \/ Publish(Widget)
  \/ Idle /\ Timer(1)
  \/ \E days \in 0..MaxDays : Idle /\ PostUpdateDays(1, days)
  \/ \E token \in {"", "bad"} : Idle /\ PostUpdateToken(1, token)
  \/ \E repo \in Repos \cup {Ghost, ""} : Idle /\ PostAddFeed(1, repo)
  \/ \E repo \in Repos : Idle /\ PostRemoveFeed(1, repo)
  \/ \E p \in Procs : ReadCfg(p)
  \/ \E p \in Procs, found \in BOOLEAN : Exists(p, found)
  \/ \E p \in Procs : SaveCfg(p)
  \/ \E p \in Procs : ErrorPage(p)
  \/ GetHome

Spec == Init /\ [][Next]_vars

\* --------------------------------------------------------------- SpecRace
\* The server with one repo and two handlers in flight at a time; the
\* lookback window stays as configured.
InitRace == InitServer(<<Widget>>)

NextRace ==
  \/ \E p \in Procs : Load(p)
  \/ \E p \in Procs : LoadFailed(p)
  \/ \E p \in Procs : FetchResp(p, 1)
  \/ \E c \in calls, kind \in MdAnswers : RenderResp(c, kind)
  \/ Tick
  \/ Publish(Widget)
  \/ \E p \in Procs : Timer(p)
  \/ \E p \in Procs : PostUpdateDays(p, 0)
  \/ \E p \in Procs : PostAddFeed(p, Widget)
  \/ \E p \in Procs : PostRemoveFeed(p, Widget)
  \/ \E p \in Procs : ReadCfg(p)
  \/ \E p \in Procs : Exists(p, TRUE)
  \/ \E p \in Procs : SaveCfg(p)
  \/ \E p \in Procs : ErrorPage(p)

SpecRace == InitRace /\ [][NextRace]_vars

\* The server with one repo, timer refreshes and POST /update-days requests
\* that enlarge the window to MaxDays, handlers overlapping.
NextLate ==
  \/ \E p \in Procs : Load(p)
  \/ \E p \in Procs : FetchResp(p, 1)
  \/ \E c \in calls, kind \in {"ok", "err"} : RenderResp(c, kind)
  \/ Tick
  \/ \E p \in Procs : Timer(p)
  \/ \E p \in Procs : PostUpdateDays(p, MaxDays)
  \/ \E p \in Procs : ReadCfg(p)
  \/ \E p \in Procs : SaveCfg(p)

SpecLate == InitRace /\ [][NextLate]_vars

\* ------------------------------------------------- one function at a time
\* The cache entries a repo can have: an etag or none, a release list as
\* fetched at some version and pruned by some cleanCache, html or "" for
\* some of the repo's releases, and promise_ keys.
PrunedLists(repo) ==
  { SelectSeq(UpstreamList(repo, v), LAMBDA release : release.published_at >= d * DayMs) :
      v \in 0..MaxVersion, d \in 0..(MaxVersion + 2) }

RenderedMaps(repo) ==
  UNION { [S -> {NoHtml, "<p>x</p>"}] : S \in SUBSET Ids(UpstreamList(repo, MaxVersion)) }

Entries(repo) ==
  { [etag |-> e, releases |-> l, rendered |-> r, promise |-> {}] :
      e \in 0..MaxVersion, l \in PrunedLists(repo), r \in RenderedMaps(repo) }

GadgetEntry == [etag |-> 1, releases |-> UpstreamList(Gadget, 1),
                rendered |-> (ReleaseOf(Gadget, 1).id :> NoHtml), promise |-> {}]

Caches ==
  {<<>>, Gadget :> GadgetEntry}
    \cup {Widget :> e : e \in Entries(Widget)}
    \cup {(Widget :> e) @@ (Gadget :> GadgetEntry) : e \in Entries(Widget)}

InitUnit ==
  /\ cfgFile = [feeds |-> <<Widget>>, daysWindow |-> 1, githubToken |-> ""]
  /\ now = 2 * DayMs
  /\ upstream \in {[repo \in Repos |-> IF repo = Widget THEN v ELSE 1] : v \in 1..MaxVersion}
  /\ cache \in Caches
  /\ calls = {}
  /\ slots = [p \in Procs |-> IdleSlot]
  /\ rateLimitHit = FALSE
  /\ lastUpdateTime = 0
  /\ listening = TRUE
  /\ out = NoOut
  /\ probe = NoProbe

\* fetchReleases(repo, token, force) up to its await on fetch
FetchCall(repo, force) ==
  /\ probe.n # 1
  /\ probe' = [NoProbe EXCEPT !.op = "fetchReleases", !.n = 1, !.repo = repo, !.force = force,
                              !.inm = IfNoneMatch(cache, repo, force)]
  /\ UNCHANGED <<cfgFile, now, upstream, cache, calls, slots, rateLimitHit, lastUpdateTime,
                 listening, out>>

\* fetchReleases from the response to its return
FetchReturn ==
  /\ probe.op = "fetchReleases" /\ probe.n = 1
  /\ \E res \in Responses(probe.repo, upstream[probe.repo], probe.inm) :
       LET f == fetchReleasesDone(cache, probe.repo, res) IN
       /\ cache' = f.cache
       /\ probe' = [probe EXCEPT !.n = 2, !.res = res, !.pre = cache,
                                 !.threw = f.threw, !.releases = f.releases]
  /\ UNCHANGED <<cfgFile, now, upstream, calls, slots, rateLimitHit, lastUpdateTime,
                 listening, out>>

\* While the fetch is in flight a cleanCache of another handler deletes the
\* repo's entry, or upstream publishes a release.
Evict ==
  /\ probe.op = "fetchReleases" /\ probe.n = 1
  /\ probe.repo \in DOMAIN cache
  /\ cache' = cleanCache(cache, Without(SeqOfRepos, probe.repo), 0)
  /\ UNCHANGED <<cfgFile, now, upstream, calls, slots, rateLimitHit, lastUpdateTime,
                 listening, out, probe>>

PublishInFlight ==
  /\ probe.op = "fetchReleases" /\ probe.n = 1
  /\ upstream[probe.repo] < MaxVersion
  /\ upstream' = [upstream EXCEPT ![probe.repo] = @ + 1]
  /\ UNCHANGED <<cfgFile, now, cache, calls, slots, rateLimitHit, lastUpdateTime,
                 listening, out, probe>>

NextFetch ==
  \/ \E force \in BOOLEAN : FetchCall(Widget, force)
  \/ FetchReturn
  \/ Evict
  \/ PublishInFlight

SpecFetch == InitUnit /\ [][NextFetch]_vars

\* hasWarning(text) on bodies made of up to MaxWords words, and on a missing
\* body.
MaxWords == 3

Words ==
  { <<"B","R","E","A","K","I","N","G">>, <<" ">>, <<"c","h","A","n","g","e">>, <<"s">>,
    <<"C","a","u","t","i","o","n">>, <<"i","m","p","o","r","t">>, <<"A","N","T">>,
    <<"f","i","x">> }

RECURSIVE Flatten(_)
Flatten(ws) == IF ws = <<>> THEN <<>> ELSE Head(ws) \o Flatten(Tail(ws))

MissingBody == [present |-> FALSE, chars |-> <<>>]

Bodies ==
  {MissingBody} \cup
  {[present |-> TRUE, chars |-> Flatten(ws)] : ws \in UNION {[1..n -> Words] : n \in 0..MaxWords}}

InitWarn ==
  /\ cfgFile = [feeds |-> <<Widget>>, daysWindow |-> 1, githubToken |-> ""]
  /\ now = 2 * DayMs
  /\ upstream = [repo \in Repos |-> 1]
  /\ cache = <<>>
  /\ calls = {}
  /\ slots = [p \in Procs |-> IdleSlot]
  /\ rateLimitHit = FALSE
  /\ lastUpdateTime = 0
  /\ listening = TRUE
  /\ out = NoOut
  /\ probe \in {[NoProbe EXCEPT !.op = "hasWarning", !.pre = text] : text \in Bodies}

HasWarning ==
  /\ probe.op = "hasWarning" /\ probe.n = 0
  /\ probe' = [probe EXCEPT !.n = 1, !.post = hasWarningOpt(probe.pre)]
  /\ UNCHANGED <<cfgFile, now, upstream, cache, calls, slots, rateLimitHit, lastUpdateTime,
                 listening, out>>

NextWarn == HasWarning

SpecWarn == InitWarn /\ [][NextWarn]_vars

\* renderHomepage and the template on caches of both repos: release lists
\* of up to MaxShown + 1 releases, fetched at some version and pruned by some
\* cleanCache, every release rendered or none, under either order of the
\* feeds and every window up to MaxShown + 1 days.
MaxShown == 3

PageEntries(repo) ==
  { [etag |-> 1, releases |-> l, rendered |-> r, promise |-> {}] :
      l \in { SelectSeq(UpstreamList(repo, v),
                        LAMBDA release : release.published_at >= d * DayMs) :
                v \in 0..MaxShown, d \in 0..(MaxShown + 1) },
      r \in { <<>>, [id \in Ids(UpstreamList(repo, MaxShown)) |-> "<p>x</p>"] } }

PageCaches ==
  {Widget :> e : e \in PageEntries(Widget)}
    \cup {(Widget :> e) @@ (Gadget :> g) : e \in PageEntries(Widget), g \in PageEntries(Gadget)}

InitPage ==
  /\ cfgFile \in {[feeds |-> f, daysWindow |-> d, githubToken |-> ""] :
                    f \in {<<Widget, Gadget>>, <<Gadget, Widget>>}, d \in 0..(MaxShown + 1)}
  /\ now = (MaxShown + 1) * DayMs
  /\ upstream = [repo \in Repos |-> MaxShown]
  /\ cache \in PageCaches
  /\ calls = {}
  /\ slots = [p \in Procs |-> IdleSlot]
  /\ rateLimitHit = FALSE
  /\ lastUpdateTime = now
  /\ listening = TRUE
  /\ out = NoOut
  /\ probe = NoProbe

NextPage == out.kind = "" /\ GetHome

SpecPage == InitPage /\ [][NextPage]_vars

\* ------------------------------------------- the paginated fetchReleases
\* fetchReleases(repo) of the p-limit server on upstream sequences of up to
\* MaxPaged releases, newest first, published on days 0..MaxAge and served
\* PerPage to a page.
MaxPaged == 4
MaxAge == 2
PerPage == 2

PagedRelease ==
  { [published_at |-> d * DayMs, draft |-> k = "draft", prerelease |-> k = "prerelease"] :
      d \in 0..MaxAge, k \in {"release", "draft", "prerelease"} }

NewestFirst(s) == \A i, j \in 1..Len(s) : i < j => s[i].published_at >= s[j].published_at

UpstreamSeqs ==
  { [i \in 1..Len(s) |-> [id |-> i, published_at |-> s[i].published_at,
                          draft |-> s[i].draft, prerelease |-> s[i].prerelease]] :
      s \in {t \in UNION {[1..n -> PagedRelease] : n \in 0..MaxPaged} : NewestFirst(t)} }

\* what GET /repos/<repo>/releases?per_page=..&page=<page> answers
GitHubPage(up, page) ==
  IF (page - 1) * PerPage >= Len(up) THEN <<>>
  ELSE SubSeq(up, (page - 1) * PerPage + 1,
              IF page * PerPage < Len(up) THEN page * PerPage ELSE Len(up))

RECURSIVE scanPageKeepDrafts(_, _, _)
scanPageKeepDrafts(allReleases, releases, cutoff) ==
  IF releases = <<>> THEN [allReleases |-> allReleases, returned |-> FALSE]
  ELSE IF Head(releases).published_at < cutoff
         THEN [allReleases |-> allReleases, returned |-> TRUE]
  ELSE scanPageKeepDrafts(Append(allReleases, Head(releases)), Tail(releases), cutoff)

\* the for-of loop over one page
RECURSIVE scanPage(_, _, _)
scanPage(allReleases, releases, cutoff) ==
  IF releases = <<>> THEN [allReleases |-> allReleases, returned |-> FALSE]
  ELSE IF Head(releases).draft \/ Head(releases).prerelease
         THEN scanPage(allReleases, Tail(releases), cutoff)
  ELSE IF Head(releases).published_at < cutoff
         THEN [allReleases |-> allReleases, returned |-> TRUE]
  ELSE scanPage(Append(allReleases, Head(releases)), Tail(releases), cutoff)

InitPaged ==
  /\ cfgFile = [feeds |-> <<Widget>>, daysWindow |-> 1, githubToken |-> ""]
  /\ now = 2 * DayMs
  /\ upstream = [repo \in Repos |-> 1]
  /\ cache = <<>>
  /\ calls = {}
  /\ slots = [p \in Procs |-> IdleSlot]
  /\ rateLimitHit = FALSE
  /\ lastUpdateTime = 0
  /\ listening = TRUE
  /\ out = NoOut
  /\ probe \in {[op |-> "fetchReleasesPaged", upstream |-> up, cutoff |-> c * DayMs, page |-> 1,
                  allReleases |-> <<>>, state |-> "await", rateLimited |-> FALSE] :
                   up \in UpstreamSeqs, c \in 0..(MaxAge + 1)}

\* One turn of the for (page) loop, from the answer to fetch on.
PagedResp(kind) ==
  /\ probe.op = "fetchReleasesPaged" /\ probe.state = "await"
  /\ probe' =
       CASE kind = "rl"  -> [probe EXCEPT !.state = "returned", !.rateLimited = TRUE]
         [] kind = "404" -> [probe EXCEPT !.state = "threw"]
         [] kind = "err" -> [probe EXCEPT !.state = "threw"]
         [] kind = "ok"  ->
              LET releases == GitHubPage(probe.upstream, probe.page)
                  scanned  == scanPage(probe.allReleases, releases, probe.cutoff)
              IN  IF releases = <<>> THEN [probe EXCEPT !.state = "returned"]
                  ELSE IF scanned.returned
                    THEN [probe EXCEPT !.state = "returned", !.allReleases = scanned.allReleases]
                  ELSE [probe EXCEPT !.page = @ + 1, !.allReleases = scanned.allReleases]
  /\ UNCHANGED <<cfgFile, now, upstream, cache, calls, slots, rateLimitHit, lastUpdateTime,
                 listening, out>>

NextPaged == \E kind \in {"ok", "rl", "404", "err"} : PagedResp(kind)

SpecPaged == InitPaged /\ [][NextPaged]_vars

\* ------------------------------------------------------ the p-limit server
\* refreshReleases of the p-limit server: every per-repo task of every
\* refresh goes through the one limiter of the module.  config.repos has up
\* to MaxRepos repos; a timer refresh, a POST /update-days refresh and a
\* POST /add-repo refresh can be in flight together, one of each.
MaxRepos == 7
Concurrency == 5

Refreshes == {"timer", "update-days", "add-repo"}

ActiveCount(L) == L.active["timer"] + L.active["update-days"] + L.active["add-repo"]

limitUnbounded(L, refresh) == [L EXCEPT !.active[refresh] = @ + 1]

\* limit(fn): fn starts at once while fewer than Concurrency tasks run, and
\* waits in the queue otherwise
limit(L, refresh) ==
  IF ActiveCount(L) < Concurrency
    THEN [L EXCEPT !.active[refresh] = @ + 1]
    ELSE [L EXCEPT !.queue = Append(@, refresh)]

\* reposToRefresh.map((repo) => limit(...)) over n repos
RECURSIVE limitAll(_, _, _)
limitAll(L, refresh, n) ==
  IF n = 0 THEN L ELSE limitAll(limit(L, refresh), refresh, n - 1)

\* a task ends: the limiter starts the task at the head of its queue
limitNext(L, refresh) ==
  LET ended == [L EXCEPT !.active[refresh] = @ - 1]
  IN  IF ended.queue = <<>> THEN ended
      ELSE [ended EXCEPT !.active[Head(ended.queue)] = @ + 1, !.queue = Tail(@)]

\* the tasks of a refresh that have not ended
TasksLeft(L, refresh) ==
  L.active[refresh] + Len(SelectSeq(L.queue, LAMBDA r : r = refresh))

InitLimit ==
  /\ cfgFile = [feeds |-> <<Widget>>, daysWindow |-> 1, githubToken |-> ""]
  /\ now = 2 * DayMs
  /\ upstream = [repo \in Repos |-> 1]
  /\ cache = <<>>
  /\ calls = {}
  /\ slots = [p \in Procs |-> IdleSlot]
  /\ rateLimitHit = FALSE
  /\ lastUpdateTime = 0
  /\ listening = TRUE
  /\ out = NoOut
  /\ probe \in {[op |-> "refreshReleases", repos |-> n, inFlight |-> {},
                  active |-> [r \in Refreshes |-> 0], queue |-> <<>>] : n \in 0..MaxRepos}

\* setInterval(refreshReleases) fires, or POST /update-days has saved the
\* config: refreshReleases() up to its await on Promise.all
RefreshAll(refresh) ==
  /\ probe.op = "refreshReleases"
  /\ refresh \in {"timer", "update-days"}
  /\ refresh \notin probe.inFlight
  /\ probe.repos > 0
  /\ probe' = [limitAll(probe, refresh, probe.repos) EXCEPT !.inFlight = @ \cup {refresh}]
  /\ UNCHANGED <<cfgFile, now, upstream, cache, calls, slots, rateLimitHit, lastUpdateTime,
                 listening, out>>

\* POST /add-repo of a repo that is not configured: refreshReleases([repo])
PostAddRepo ==
  /\ probe.op = "refreshReleases"
  /\ "add-repo" \notin probe.inFlight
  /\ probe.repos < MaxRepos
  /\ probe' = [limitAll(probe, "add-repo", 1) EXCEPT !.inFlight = @ \cup {"add-repo"}]
  /\ UNCHANGED <<cfgFile, now, upstream, cache, calls, slots, rateLimitHit, lastUpdateTime,
                 listening, out>>

\* The task of one repo ends (its fetchReleases returned or threw).  With the
\* last task of a refresh Promise.all resolves and refreshReleases returns;
\* POST /add-repo then pushes its repo onto config.repos.
TaskEnds(refresh) ==
  /\ probe.op = "refreshReleases"
  /\ probe.active[refresh] > 0
  /\ LET L == limitNext(probe, refresh) IN
       probe' = IF TasksLeft(L, refresh) > 0 THEN L
                ELSE [L EXCEPT !.inFlight = @ \ {refresh},
                               !.repos = IF refresh = "add-repo" THEN @ + 1 ELSE @]
  /\ UNCHANGED <<cfgFile, now, upstream, cache, calls, slots, rateLimitHit, lastUpdateTime,
                 listening, out>>

NextLimit ==
  \/ \E refresh \in {"timer", "update-days"} : RefreshAll(refresh)
  \/ PostAddRepo
  \/ \E refresh \in Refreshes : TaskEnds(refresh)

SpecLimit == InitLimit /\ [][NextLimit]_vars

\* ------------------------------------------------- the config and its routes
\* readConfig, saveConfig and the routes that change the config, one request
\* in each of two handlers, over a config file that can be missing.  A
\* handler holds the object readConfig returned to it: the object it parsed
\* from the file, or defaultConfig, the one object of the module.
ConfigRequests ==
  {[kind |-> "add-feed", repo |-> r, days |-> 0, token |-> ""] : r \in Repos}
    \cup {[kind |-> "remove-feed", repo |-> r, days |-> 0, token |-> ""] : r \in Repos}
    \cup {[kind |-> "update-days", repo |-> "", days |-> d, token |-> ""] : d \in 1..MaxDays}
    \cup {[kind |-> "update-token", repo |-> "", days |-> 0, token |-> "ghp_a"]}

InitConfig ==
  /\ cfgFile = [feeds |-> <<Widget>>, daysWindow |-> 1, githubToken |-> ""]
  /\ now = 2 * DayMs
  /\ upstream = [repo \in Repos |-> 1]
  /\ cache = <<>>
  /\ calls = {}
  /\ slots = [p \in Procs |-> IdleSlot]
  /\ rateLimitHit = FALSE
  /\ lastUpdateTime = 0
  /\ listening = TRUE
  /\ out = NoOut
  /\ probe \in {[op |-> "config",
                  file |-> [exists |-> e, cfg |-> [NoCfg EXCEPT !.feeds = f, !.daysWindow = 31]],
                  defaultConfig |-> [NoCfg EXCEPT !.daysWindow = 31],
                  req |-> [p \in Procs |-> [pc |-> "read", req |-> q[p], ref |-> "own",
                                            own |-> NoCfg, json |-> NoCfg]]] :
                   e \in BOOLEAN, f \in {<<>>, <<Widget>>}, q \in [Procs -> ConfigRequests]}

\* the handler p from the return of readConfig to its next await: the
\* route's checks and its change of the object `config` it holds (shared
\* when ref = "default"), and the JSON saveConfig is called with
ConfigRead(P, p, ref, config) ==
  LET r   == P.req[p].req
      new == CASE r.kind = "remove-feed"  -> [config EXCEPT !.feeds = Without(@, r.repo)]
               [] r.kind = "update-days"  -> [config EXCEPT !.daysWindow = r.days]
               [] r.kind = "update-token" -> [config EXCEPT !.githubToken = r.token]
               [] OTHER                   -> config
      pc  == IF r.kind # "add-feed" THEN "save"
             ELSE IF Includes(config.feeds, r.repo) THEN "rejected" ELSE "exists"
  IN  [P EXCEPT !.req[p] = [@ EXCEPT !.pc = pc, !.ref = ref, !.own = new, !.json = new],
                !.defaultConfig = IF ref = "default" THEN new ELSE @]

\* One handler goes on from the await it is at.
ConfigStep(p) ==
  /\ probe.op = "config"
  /\ LET me == probe.req[p] IN
       \/ /\ me.pc = "read" /\ probe.file.exists
          /\ probe' = ConfigRead(probe, p, "own", probe.file.cfg)
       \/ /\ me.pc = "read" /\ ~probe.file.exists
          /\ probe' = [probe EXCEPT !.req[p].pc = "writeDefault"]
       \/ /\ me.pc = "writeDefault"
          /\ probe' = ConfigRead([probe EXCEPT !.file = [exists |-> TRUE, cfg |-> probe.defaultConfig]],
                                 p, "default", probe.defaultConfig)
       \/ /\ me.pc = "exists"
          /\ \E found \in BOOLEAN :
               LET config == IF me.ref = "default" THEN probe.defaultConfig ELSE me.own
                   new    == [config EXCEPT !.feeds = Append(@, me.req.repo)]
               IN  probe' = IF ~found THEN [probe EXCEPT !.req[p].pc = "rejected"]
                            ELSE [probe EXCEPT !.req[p] = [@ EXCEPT !.pc = "save", !.own = new,
                                                                   !.json = new],
                                               !.defaultConfig = IF me.ref = "default" THEN new ELSE @]
       \/ /\ me.pc = "save"
          /\ probe' = [probe EXCEPT !.req[p].pc = "done",
                                    !.file = [exists |-> TRUE, cfg |-> me.json]]
  /\ UNCHANGED <<cfgFile, now, upstream, cache, calls, slots, rateLimitHit, lastUpdateTime,
                 listening, out>>

NextConfig == \E p \in Procs : ConfigStep(p)

SpecConfig == InitConfig /\ [][NextConfig]_vars

\* ------------------------------------------------ the slug of an added repo
\* The text of the form field as a sequence of pieces, "/" a piece of its
\* own; no other piece contains a slash.
\* the number of pieces before the first "/"
RECURSIVE Lead(_)
Lead(t) == IF t = <<>> \/ Head(t) = "/" THEN 0 ELSE 1 + Lead(Tail(t))

HttpsGithub == <<"https:", "/", "/", "github.com", "/">>

\* POST /add-feed of the etag-cache server:
\* raw.match(/^(?:https:\/\/github\.com\/)?([^/]+\/[^/]+?)(?:\.git|\/.*)?$/),
\* match[1] or <<>> when there is no match
matchFeedSlug(raw) ==
  LET Body(t) ==
        LET a    == Lead(t)
            rest == SubSeq(t, a + 2, Len(t))
            ks   == {k \in 1..Lead(rest) :
                       LET r == SubSeq(rest, k + 1, Len(rest))
                       IN  r = <<>> \/ r = <<".git">> \/ Head(r) = "/"}
        IN  IF a >= 1 /\ Len(t) >= a + 2 /\ t[a + 1] = "/" /\ ks # {}
              THEN SubSeq(t, 1, a + 1) \o SubSeq(rest, 1, CHOOSE k \in ks : \A j \in ks : k <= j)
              ELSE <<>>
      after == SubSeq(raw, Len(HttpsGithub) + 1, Len(raw))
  IN  IF Len(raw) >= Len(HttpsGithub) /\ SubSeq(raw, 1, Len(HttpsGithub)) = HttpsGithub
         /\ Body(after) # <<>>
        THEN Body(after) ELSE Body(raw)

\* normalizeRepoSlug of the p-limit server:
\* /^(?:https?:\/\/)?(?:www\.)?github\.com\/([^\/]+)\/([^\/]+)(?:\/.*)?$/,
\* match[1]/match[2], or the input when there is no match
normalizeRepoSlug(input) ==
  LET t1 == IF Len(input) >= 3 /\ SubSeq(input, 1, 3) \in {<<"https:", "/", "/">>, <<"http:", "/", "/">>}
              THEN SubSeq(input, 4, Len(input)) ELSE input
      t2 == IF t1 # <<>> /\ Head(t1) = "www." THEN Tail(t1) ELSE t1
      t  == SubSeq(t2, 3, Len(t2))
      a  == Lead(t)
      rest == SubSeq(t, a + 2, Len(t))
      b  == Lead(rest)
  IN  IF /\ Len(t2) >= 2 /\ SubSeq(t2, 1, 2) = <<"github.com", "/">>
         /\ a >= 1 /\ Len(t) >= a + 2 /\ t[a + 1] = "/"
         /\ b >= 1 /\ (b = Len(rest) \/ rest[b + 1] = "/")
        THEN SubSeq(t, 1, a + 1) \o SubSeq(rest, 1, b)
        ELSE input

InitSlug ==
  /\ cfgFile = [feeds |-> <<Widget>>, daysWindow |-> 1, githubToken |-> ""]
  /\ now = 2 * DayMs
  /\ upstream = [repo \in Repos |-> 1]
  /\ cache = <<>>
  /\ calls = {}
  /\ slots = [p \in Procs |-> IdleSlot]
  /\ rateLimitHit = FALSE
  /\ lastUpdateTime = 0
  /\ listening = TRUE
  /\ out = NoOut
  /\ probe \in {[op |-> "slug", server |-> sv, n |-> 0, slug |-> <<o, "/", r>>,
                  raw |-> pre \o <<o, "/", r>> \o suf, post |-> <<>>] :
                   sv \in {"etag-cache", "p-limit"},
                   o \in {"acme", "a.git"}, r \in {"widget", "gadget", "my.github.io"},
                   pre \in {<<>>, HttpsGithub, <<"github.com", "/">>,
                            <<"https:", "/", "/", "www.", "github.com", "/">>},
                   suf \in {<<>>, <<".git">>, <<"/">>, <<"/", "releases">>,
                            <<"/", "tree", "/", "main">>, <<".git", "/">>}}

\* the slug the server takes from the form field
NormalizeSlug ==
  /\ probe.op = "slug" /\ probe.n = 0
  /\ probe' = [probe EXCEPT !.n = 1,
                            !.post = IF probe.server = "etag-cache" THEN matchFeedSlug(probe.raw)
                                     ELSE normalizeRepoSlug(probe.raw)]
  /\ UNCHANGED <<cfgFile, now, upstream, cache, calls, slots, rateLimitHit, lastUpdateTime,
                 listening, out>>

SpecSlug == InitSlug /\ [][NormalizeSlug]_vars

\* ------------------------------------- the paginated etag fetchReleases
\* fetchReleases(repo, token, cutoff, force) of the paginated etag variant,
\* called again and again for one repo on the upstream sequences of the
\* paginated harness; upstream answers with etag 1.
maxPages == 5

InitEtagPaged ==
  /\ cfgFile = [feeds |-> <<Widget>>, daysWindow |-> 1, githubToken |-> ""]
  /\ now = 2 * DayMs
  /\ upstream = [repo \in Repos |-> 1]
  /\ cache = <<>>
  /\ calls = {}
  /\ slots = [p \in Procs |-> IdleSlot]
  /\ rateLimitHit = FALSE
  /\ lastUpdateTime = 0
  /\ listening = TRUE
  /\ out = NoOut
  /\ probe \in {[op |-> "fetchReleasesEtag", upstream |-> up, cutoff |-> c * DayMs,
                  cache |-> <<>>, state |-> "idle", force |-> FALSE, inm |-> NoEtag,
                  page |-> 1, allReleases |-> <<>>, status |-> 0, etag |-> NoEtag] :
                   up \in UpstreamSeqs, c \in 0..(MaxAge + 1)}

\* fetchReleases up to its first await on fetch
EtagFetchCall(force) ==
  /\ probe.op = "fetchReleasesEtag"
  /\ probe.state # "await"
  /\ probe' = [probe EXCEPT
                 !.state = "await", !.force = force, !.page = 1, !.allReleases = <<>>,
                 !.status = 0, !.etag = NoEtag,
                 !.inm = IF ~force /\ Widget \in DOMAIN probe.cache
                            /\ probe.cache[Widget].etag # NoEtag
                           THEN probe.cache[Widget].etag ELSE NoEtag]
  /\ UNCHANGED <<cfgFile, now, upstream, cache, calls, slots, rateLimitHit, lastUpdateTime,
                 listening, out>>

\* One turn of the while loop from the answer to fetch on and, after a
\* break or the last page, the assignment to cache[repo] and the return.
EtagFetchResp(kind) ==
  /\ probe.op = "fetchReleasesEtag"
  /\ probe.state = "await"
  /\ kind = "304" <=> (probe.inm # NoEtag /\ probe.inm = 1)
  /\ LET pageReleases == GitHubPage(probe.upstream, probe.page)
         all    == probe.allReleases \o
                     [j \in 1..Len(pageReleases) |->
                        [id |-> pageReleases[j].id,
                         published_at |-> pageReleases[j].published_at]]
         Return(P, releases) ==
           [P EXCEPT !.state = "returned", !.status = 200, !.etag = 1,
                     !.allReleases = releases,
                     !.cache = (Widget :> [etag |-> IF Widget \in DOMAIN P.cache
                                                      THEN P.cache[Widget].etag ELSE NoEtag,
                                           releases |-> releases])]
     IN  probe' =
           CASE kind = "304" -> [probe EXCEPT !.state = "returned", !.status = 304,
                                              !.allReleases = probe.cache[Widget].releases]
             [] kind = "rl"  -> [probe EXCEPT !.state = "threw", !.status = 403]
             [] kind = "err" -> [probe EXCEPT !.state = "threw", !.status = 500]
             [] OTHER ->
                  IF pageReleases = <<>> THEN Return(probe, probe.allReleases)
                  ELSE IF pageReleases[Len(pageReleases)].published_at < probe.cutoff
                    THEN Return(probe, all)
                  ELSE IF probe.page + 1 > maxPages THEN Return(probe, all)
                  ELSE [probe EXCEPT !.page = @ + 1, !.allReleases = all]
  /\ UNCHANGED <<cfgFile, now, upstream, cache, calls, slots, rateLimitHit, lastUpdateTime,
                 listening, out>>

SpecEtagPaged ==
  InitEtagPaged /\
  [][\/ \E force \in BOOLEAN : EtagFetchCall(force)
     \/ \E kind \in {"ok", "304", "rl", "err"} : EtagFetchResp(kind)]_vars

\* --------------------------------------- the p-limit server as a whole
\* The p-limit server as a whole: config (in memory) and config.json (file),
\* cachedData, rateLimited, refreshReleases.lastErrors, lastUpdateTime, and
\* per handler p the refresh it awaits: the repos it refreshes, the window it
\* started with, the tasks whose fetchReleases has not settled (left) and
\* its errors array.  Widget has three releases in a window of two days or
\* more and two in a window of one day; Gadget has one; GitHub has no
\* repository Ghost.  A rate limit is met on one of the pages 1..MaxLimitedPage.
\* last is what the last step did.
MaxLimitedPage == 2

IdleRun == [kind |-> "idle", pc |-> "idle", repos |-> <<>>, days |-> 0, left |-> {},
            errors |-> {}, arg |-> ""]

InitPLimit ==
  /\ cfgFile = [feeds |-> <<Widget>>, daysWindow |-> 1, githubToken |-> ""]
  /\ now = 2 * DayMs
  /\ upstream = [repo \in Repos |-> 1]
  /\ cache = <<>>
  /\ calls = {}
  /\ slots = [p \in Procs |-> IdleSlot]
  /\ rateLimitHit = FALSE
  /\ lastUpdateTime = 0
  /\ listening = TRUE
  /\ out = NoOut
  /\ probe = [op |-> "plimit",
              config |-> [repos |-> <<Widget>>, daysWindow |-> 1, githubToken |-> ""],
              file   |-> [repos |-> <<Widget>>, daysWindow |-> 1, githubToken |-> ""],
              cachedData |-> <<>>, rateLimited |-> FALSE, lastErrors |-> {},
              lastUpdateTime |-> 0, listening |-> FALSE,
              run |-> [p \in Procs |->
                         IF p = 1 THEN [IdleRun EXCEPT !.kind = "startup", !.pc = "fetch",
                                                       !.repos = <<Widget>>, !.days = 1,
                                                       !.left = {1}]
                         ELSE IdleRun],
              last |-> [op |-> "", by |-> 0, repo |-> "", kind |-> ""]]

rateLimitedOfLast(flag, kind) == kind = "rl"

\* rateLimited after a fetch answered `kind`: line 72 is its only assignment
rateLimitedAfter(flag, kind) == flag \/ kind = "rl"

\* refreshReleases from the return of Promise.all on, and the rest of the
\* handler kind that awaited it
RefreshEnd(P, p) ==
  LET cd   == P.cachedData
      perm == CHOOSE f \in [1..Len(cd) -> 1..Len(cd)] :
                /\ \A i, j \in 1..Len(cd) : i # j => f[i] # f[j]
                /\ \A i, j \in 1..Len(cd) :
                     i < j => \/ Len(cd[f[i]].releases) > Len(cd[f[j]].releases)
                              \/ /\ Len(cd[f[i]].releases) = Len(cd[f[j]].releases)
                                 /\ f[i] < f[j]
      Q    == [P EXCEPT !.cachedData = [i \in 1..Len(cd) |-> cd[perm[i]]],
                        !.lastErrors = P.run[p].errors,
                        !.lastUpdateTime = now,
                        !.run[p] = IdleRun]
  IN  CASE P.run[p].kind = "add-repo" ->
             LET c == [Q.config EXCEPT !.repos = Append(@, P.run[p].arg)]
             IN  [Q EXCEPT !.config = c, !.file = c]
        [] P.run[p].kind = "startup" -> [Q EXCEPT !.listening = TRUE]
        [] OTHER -> Q

\* A handler starts: the timer callback, GET / with cachedData empty,
\* POST /add-repo of `repo` (any of the forms normalizeRepoSlug maps to it),
\* POST /update-days and POST /update-token up to their await on saveConfig.
\* Handler 1 takes the refreshes of all repos, handler 2 the other requests;
\* the window is set to MaxDays, the token to "ghp_x".
PLimitCall(p, kind, repo, days, token) ==
  /\ probe.op = "plimit"
  /\ probe.listening
  /\ probe.run[p].kind = "idle"
  /\ kind \in {"add-repo", "update-token"} <=> p = 2
  /\ kind = "add-repo" <=> repo # Widget
  /\ kind = "update-days" <=> days = MaxDays
  /\ kind = "update-token" <=> token = "ghp_x"
  /\ LET start(P, repos) ==
           LET R == [P EXCEPT !.run[p] = [kind |-> kind, pc |-> "fetch", repos |-> repos,
                                          days |-> P.config.daysWindow,
                                          left |-> 1..Len(repos), errors |-> {},
                                          arg |-> repo]]
           IN  IF repos = <<>> THEN RefreshEnd(R, p) ELSE R
         P0 == [probe EXCEPT !.last = [op |-> "call", by |-> p, repo |-> "", kind |-> ""]]
     IN  probe' =
           CASE kind = "timer" -> start(P0, probe.config.repos)
             [] kind = "home"  -> IF probe.cachedData = <<>>
                                    THEN start(P0, probe.config.repos) ELSE P0
             [] kind = "add-repo" ->
                  IF Includes(probe.config.repos, repo) THEN P0 ELSE start(P0, <<repo>>)
             [] kind = "update-days" ->
                  LET c == [probe.config EXCEPT !.daysWindow = days]
                  IN  [P0 EXCEPT !.config = c, !.file = c,
                                 !.run[p] = [IdleRun EXCEPT !.kind = kind, !.pc = "save"]]
             [] kind = "update-token" ->
                  LET c == [probe.config EXCEPT !.githubToken = token]
                  IN  [P0 EXCEPT !.config = c, !.file = c]
  /\ UNCHANGED <<cfgFile, now, upstream, cache, calls, slots, rateLimitHit, lastUpdateTime,
                 listening, out>>

\* POST /remove-repo
PostRemoveRepo(repo) ==
  /\ probe.op = "plimit"
  /\ probe.listening
  /\ LET c == [probe.config EXCEPT !.repos = Without(@, repo)]
     IN  probe' = [probe EXCEPT
                     !.config = c, !.file = c,
                     !.cachedData = SelectSeq(@, LAMBDA r : r.repo # repo),
                     !.lastErrors = @ \ {repo},
                     !.last = [op |-> "remove-repo", by |-> 0, repo |-> "", kind |-> ""]]
  /\ UNCHANGED <<cfgFile, now, upstream, cache, calls, slots, rateLimitHit, lastUpdateTime,
                 listening, out>>

\* An await of handler p settles: saveConfig of POST /update-days, after
\* which refreshReleases() starts; or fetchReleases of the task of repo
\* number i, answered all the way ("ok"), rate-limited on page `page`
\* ("rl"), 404 or another error; with the last task the refresh ends.
PLimitStep(p, i, kind, page) ==
  /\ probe.op = "plimit"
  /\ \/ /\ probe.run[p].pc = "save"
        /\ kind = "ok" /\ i = 1 /\ page = 1
        /\ LET R == [probe EXCEPT
                       !.run[p] = [kind |-> "update-days", pc |-> "fetch",
                                   repos |-> probe.config.repos,
                                   days |-> probe.config.daysWindow,
                                   left |-> 1..Len(probe.config.repos), errors |-> {},
                                   arg |-> ""],
                       !.last = [op |-> "call", by |-> p, repo |-> "", kind |-> ""]]
           IN  probe' = IF probe.config.repos = <<>> THEN RefreshEnd(R, p) ELSE R
     \/ /\ probe.run[p].pc = "fetch"
        /\ i \in probe.run[p].left
        /\ LET repo == probe.run[p].repos[i]
               all  == CASE repo = Widget -> IF probe.run[p].days >= 2 THEN <<3, 2, 1>>
                                             ELSE <<3, 2>>
                         [] repo = Gadget -> <<4>>
                         [] OTHER -> <<>>
               upTo == IF (page - 1) * PerPage < Len(all) THEN (page - 1) * PerPage
                       ELSE Len(all)
               releases == IF kind = "rl" THEN SubSeq(all, 1, upTo) ELSE all
               returned == kind \in {"ok", "rl"}
               P == [probe EXCEPT
                       !.rateLimited = rateLimitedAfter(@, kind),
                       !.cachedData =
                          IF returned
                            THEN SelectSeq(@, LAMBDA f : f.repo # repo)
                                   \o (IF Len(releases) > 0
                                         THEN <<[repo |-> repo, releases |-> releases]>>
                                         ELSE <<>>)
                            ELSE @,
                       !.run[p].errors = IF returned THEN @ ELSE @ \cup {repo},
                       !.run[p].left = @ \ {i},
                       !.last = [op |-> "fetched", by |-> p, repo |-> repo, kind |-> kind]]
           IN  /\ kind = "ok" => repo # Ghost /\ page = 1
               /\ kind = "404" => repo = Ghost /\ page = 1
               /\ kind = "err" => repo # Ghost /\ page = 1
               /\ kind = "rl" => repo # Ghost /\ (page - 1) * PerPage <= Len(all)
               /\ probe' = IF P.run[p].left = {} THEN RefreshEnd(P, p) ELSE P
  /\ UNCHANGED <<cfgFile, now, upstream, cache, calls, slots, rateLimitHit, lastUpdateTime,
                 listening, out>>

SpecPLimit ==
  InitPLimit /\
  [][\/ \E p \in Procs, kind \in {"timer", "home", "add-repo", "update-days", "update-token"},
           repo \in {Widget, Gadget, Ghost}, days \in {1, MaxDays}, token \in {"", "ghp_x"} :
         PLimitCall(p, kind, repo, days, token)
     \/ \E repo \in {Widget, Gadget, Ghost} : PostRemoveRepo(repo)
     \/ \E p \in Procs, i \in 1..MaxRepos, kind \in {"ok", "rl", "404", "err"},
           page \in 1..MaxLimitedPage :
         PLimitStep(p, i, kind, page)]_vars

\* ------------------------------------------------------ the guarded server
\* updateAllFeeds of the guarded server, called by the timer and by routes
\* (two callers), over MaxTasks configured repos.  body[p] is the execution
\* caller p started: at its await on readConfig, or at Promise.all with each
\* repo's task at its fetch, at its renders, or done.
MaxTasks == 3

InitGuarded ==
  /\ cfgFile = [feeds |-> <<Widget>>, daysWindow |-> 1, githubToken |-> ""]
  /\ now = 2 * DayMs
  /\ upstream = [repo \in Repos |-> 1]
  /\ cache = <<>>
  /\ calls = {}
  /\ slots = [p \in Procs |-> IdleSlot]
  /\ rateLimitHit = FALSE
  /\ lastUpdateTime = 0
  /\ listening = TRUE
  /\ out = NoOut
  /\ probe = [op |-> "guarded", isUpdateRunning |-> FALSE, last |-> "",
              body |-> [p \in Procs |-> [pc |-> "idle", tasks |-> <<>>]]]

GuardedCallUnguarded(p) ==
  /\ probe.op = "guarded"
  /\ probe.body[p].pc = "idle"
  /\ probe' = [probe EXCEPT !.isUpdateRunning = TRUE, !.last = "started",
                            !.body[p].pc = "readConfig"]
  /\ UNCHANGED <<cfgFile, now, upstream, cache, calls, slots, rateLimitHit, lastUpdateTime,
                 listening, out>>

\* updateAllFeeds() is called: skipped when isUpdateRunning, else up to its
\* await on readConfig
GuardedCall(p) ==
  /\ probe.op = "guarded"
  /\ probe.body[p].pc = "idle"
  /\ probe' = IF probe.isUpdateRunning THEN [probe EXCEPT !.last = "skipped"]
              ELSE [probe EXCEPT !.isUpdateRunning = TRUE, !.last = "started",
                                 !.body[p].pc = "readConfig"]
  /\ UNCHANGED <<cfgFile, now, upstream, cache, calls, slots, rateLimitHit, lastUpdateTime,
                 listening, out>>

GuardedStepNoFinally(p) ==
  /\ probe.op = "guarded"
  /\ probe.body[p].pc = "readConfig"
  /\ probe' = [probe EXCEPT !.last = "threw", !.body[p] = [pc |-> "idle", tasks |-> <<>>]]
  /\ UNCHANGED <<cfgFile, now, upstream, cache, calls, slots, rateLimitHit, lastUpdateTime,
                 listening, out>>

\* An await of the execution p started settles: readConfig returns or
\* throws, the fetch of a repo's task is answered (the task goes on to its
\* renders, or ends: nothing to render, or an error caught), or the renders
\* of a task settle.  After the last task, and after a throw of readConfig,
\* the finally block runs.
GuardedStep(p) ==
  /\ probe.op = "guarded"
  /\ LET End(P, how) ==
           IF \A i \in 1..Len(P.body[p].tasks) : P.body[p].tasks[i] = "done"
             THEN [P EXCEPT !.isUpdateRunning = FALSE, !.last = how,
                            !.body[p] = [pc |-> "idle", tasks |-> <<>>]]
             ELSE [P EXCEPT !.last = "settled"]
     IN  \/ /\ probe.body[p].pc = "readConfig"
            /\ \E n \in 0..MaxTasks :
                 probe' = End([probe EXCEPT !.body[p] = [pc |-> "run",
                                                         tasks |-> [i \in 1..n |-> "fetch"]]], "done")
         \/ /\ probe.body[p].pc = "readConfig"
            /\ probe' = End(probe, "threw")
         \/ /\ probe.body[p].pc = "run"
            /\ \E i \in 1..Len(probe.body[p].tasks), to \in {"render", "done"} :
                 /\ probe.body[p].tasks[i] = "fetch"
                 /\ probe' = End([probe EXCEPT !.body[p].tasks[i] = to], "done")
         \/ /\ probe.body[p].pc = "run"
            /\ \E i \in 1..Len(probe.body[p].tasks) :
                 /\ probe.body[p].tasks[i] = "render"
                 /\ probe' = End([probe EXCEPT !.body[p].tasks[i] = "done"], "done")
  /\ UNCHANGED <<cfgFile, now, upstream, cache, calls, slots, rateLimitHit, lastUpdateTime,
                 listening, out>>

SpecGuarded == InitGuarded /\ [][\E p \in Procs : GuardedCall(p) \/ GuardedStep(p)]_vars

\* every fetch, render and file operation settles
SpecGuardedFair == SpecGuarded /\ \A p \in Procs : WF_vars(GuardedStep(p))

\* cleanCache(feeds, cutoff), and the same call once more
Clean(feeds, cutoff) ==
  /\ probe.n = 0
  /\ cache' = cleanCache(cache, feeds, cutoff)
  /\ probe' = [NoProbe EXCEPT !.op = "cleanCache", !.n = 1, !.feeds = feeds, !.cutoff = cutoff,
                              !.pre = cache, !.post = cleanCache(cache, feeds, cutoff)]
  /\ UNCHANGED <<cfgFile, now, upstream, calls, slots, rateLimitHit, lastUpdateTime,
                 listening, out>>

CleanAgain ==
  /\ probe.op = "cleanCache" /\ probe.n = 1
  /\ cache' = cleanCache(cache, probe.feeds, probe.cutoff)
  /\ probe' = [probe EXCEPT !.n = 2]
  /\ UNCHANGED <<cfgFile, now, upstream, calls, slots, rateLimitHit, lastUpdateTime,
                 listening, out>>

NextClean ==
  \/ \E feeds \in {<<>>, <<Widget>>, <<Gadget>>, <<Widget, Gadget>>}, d \in 0..MaxNow :
       Clean(feeds, d * DayMs)
  \/ CleanAgain

SpecClean == InitUnit /\ [][NextClean]_vars

\* ================================================================== claims
\* The release of `repo` that a displayed item stands for: titles are unique
\* within a repo (release.name || release.tag_name).
TitleOf(release) == IF release.name # "" THEN release.name ELSE release.tag_name

Catalogue(repo) == {ReleaseOf(repo, k) : k \in 1..(MaxVersion + 1)}

Shown(page, repo) ==
  {r \in Catalogue(repo) :
     \E i \in 1..Len(page.feedsWithReleases) :
       /\ page.feedsWithReleases[i].project = repo
       /\ \E j \in 1..Len(page.feedsWithReleases[i].releases) :
            page.feedsWithReleases[i].releases[j].title = TitleOf(r)}

Cached(repo) ==
  IF repo \in DOMAIN cache
    THEN {cache[repo].releases[i] : i \in 1..Len(cache[repo].releases)} ELSE {}

\* C1: every release a page view lists was published at or after
\* now - daysWindow days, the cutoff taken at view time from the current
\* config, and is neither a draft nor a prerelease; every listed item is a
\* release of the repo it is listed under.
C1_DisplayedInWindow ==
  out.kind = "page" =>
    /\ \A i \in 1..Len(out.page.feedsWithReleases) :
         LET f == out.page.feedsWithReleases[i] IN
         \A j \in 1..Len(f.releases) :
           \E r \in Catalogue(f.project) : f.releases[j].title = TitleOf(r)
    /\ \A repo \in Repos : \A r \in Shown(out.page, repo) :
         /\ r.published_at >= now - cfgFile.daysWindow * DayMs
         /\ ~r.draft
         /\ ~r.prerelease

\* A page lists a release of a repo whose cache entry also holds a draft or
\* prerelease and a release older than the cutoff of the view.
C1_Witness ==
  /\ out.kind = "page"
  /\ \E repo \in Repos :
       /\ Shown(out.page, repo) # {}
       /\ \E r \in Cached(repo) : r.draft \/ r.prerelease
       /\ \E r \in Cached(repo) : r.published_at < now - cfgFile.daysWindow * DayMs

\* C2: when a run of updateAllFeeds completes, rateLimitHit is true exactly
\* when the fetch of some repo of the run was rate-limited, and for every repo
\* whose fetch returned 200, whatever happened to the other repos, the
\* releases that are valid at the current cutoff are in the cache and in the
\* view model.
C2_RateLimitIsolation ==
  out.kind = "run" =>
    \A n \in 1..Len(out.runs) :
      LET run  == out.runs[n]
          page == renderHomepage(cfgFile, cache, now, rateLimitHit, lastUpdateTime, "")
      IN  /\ (n = Len(out.runs) /\ run.pc = "done") =>
               (rateLimitHit <=> \E i \in 1..Len(run.pf) : run.pf[i].st = "rl")
          /\ \A i \in 1..Len(run.pf) :
               run.pf[i].got > 0 =>
                 LET fetched == UpstreamList(run.feeds[i], run.pf[i].got) IN
                 \A k \in 1..Len(fetched) :
                   isValidRelease(fetched[k], CutoffOf(now, cfgFile.daysWindow)) =>
                     /\ fetched[k] \in Cached(run.feeds[i])
                     /\ fetched[k] \in Shown(page, run.feeds[i])

\* A run completes in which the fetch of one repo was rate-limited and the
\* fetch of another returned releases that are in the window.
C2_Witness ==
  /\ out.kind = "run"
  /\ \E n \in 1..Len(out.runs) :
       LET run == out.runs[n] IN
       \E i, j \in 1..Len(run.pf) :
         /\ run.pf[i].st = "rl"
         /\ run.pf[j].got > 0
         /\ \E r \in Cached(run.feeds[j]) :
              isValidRelease(r, CutoffOf(now, cfgFile.daysWindow))

\* C3: for every repo and release id at most one render call is in flight;
\* this covers callers from overlapping refreshes and the removal and
\* re-adding of the repo while a render is in flight.
C3_OneRenderInFlight ==
  \A a, b \in calls : (a.repo = b.repo /\ a.id = b.id) => a = b

\* C4: no two executions of updateAllFeeds are in flight (between the return
\* of loadConfigAndCutoff and the end of the run) over the same repo.
C4_NoOverlappingRefresh ==
  \A p, q \in Procs :
    (p # q /\ slots[p].pc = "run" /\ slots[q].pc = "run") =>
      ~\E repo \in Repos : Includes(slots[p].feeds, repo) /\ Includes(slots[q].feeds, repo)

\* C5: a non-forced fetchReleases that is answered 304 leaves the cache as it
\* was when the response arrived (etag, release list, rendered map) and
\* returns the cached release list; if the entry was deleted while the fetch
\* was in flight the cache is equally unchanged and the call throws.
C5_NotModifiedKeepsEntry ==
  (probe.op = "fetchReleases" /\ probe.n = 2 /\ ~probe.force /\ probe.res.status = 304) =>
    /\ cache = probe.pre
    /\ probe.repo \in DOMAIN probe.pre =>
         /\ probe.threw = ""
         /\ probe.releases = probe.pre[probe.repo].releases
    /\ probe.repo \notin DOMAIN probe.pre => probe.threw = "TypeError"

\* A non-forced fetch answered 304 for an entry that holds releases and
\* rendered html.
C5_Witness ==
  /\ probe.op = "fetchReleases" /\ probe.n = 2 /\ ~probe.force /\ probe.res.status = 304
  /\ probe.repo \in DOMAIN probe.pre
  /\ probe.pre[probe.repo].rendered # <<>>
  /\ probe.releases # <<>>

\* C6: a forced fetchReleases sends no If-None-Match whatever etag is cached,
\* is never answered 304, and on a 200 response the cached release list and
\* etag of the repo are those of the response.
C6_ForcedBypassesEtag ==
  (probe.op = "fetchReleases" /\ probe.force) =>
    /\ probe.inm = NoEtag
    /\ probe.n = 2 =>
         /\ probe.res.status # 304
         /\ probe.res.status = 200 =>
              /\ probe.repo \in DOMAIN cache
              /\ cache[probe.repo].etag = probe.res.etag
              /\ cache[probe.repo].releases = probe.res.releases

\* A forced fetch answered 200 although the cached etag was the upstream one.
C6_Witness ==
  /\ probe.op = "fetchReleases" /\ probe.force /\ probe.n = 2
  /\ probe.res.status = 200
  /\ probe.repo \in DOMAIN probe.pre
  /\ probe.pre[probe.repo].etag = probe.res.etag

\* The etag the non-forced request of processFeed i of run p carries: the one
\* cached for the repo, none when there is no entry or no etag.
CachedEtag(repo) == IF repo \in DOMAIN cache THEN cache[repo].etag ELSE NoEtag

ConfigRoutes == {"update-days", "add-feed", "update-token"}

\* C7, as stated: every refresh that POST /update-days, POST /add-feed or
\* POST /update-token starts runs with force = true and sends no If-None-Match
\* for any repo.
C7_EveryConfigRefreshForced ==
  \A p \in Procs :
    (slots[p].pc = "run" /\ slots[p].kind \in ConfigRoutes) =>
      /\ slots[p].force
      /\ \A i \in 1..Len(slots[p].pf) : slots[p].pf[i].inm = NoEtag

\* C7, amended: the refresh that POST /update-days starts runs with
\* force = true and sends no If-None-Match for any repo; the refreshes that
\* POST /add-feed and POST /update-token start run with force = false and
\* send the cached etag of every repo that has one.
C7_OnlyUpdateDaysForced ==
  \A p \in Procs :
    (slots[p].pc = "run" /\ slots[p].kind \in ConfigRoutes) =>
      /\ slots[p].force <=> slots[p].kind = "update-days"
      /\ \A i \in 1..Len(slots[p].pf) :
           /\ slots[p].kind = "update-days" => slots[p].pf[i].inm = NoEtag
           /\ (slots[p].kind # "update-days" /\ slots[p].pf[i].st = "fetch") =>
                slots[p].pf[i].inm = CachedEtag(slots[p].feeds[i])

\* A refresh of POST /update-days awaits the fetch of a repo that has a cached
\* etag, and sent none.
C7_Witness ==
  \E p \in Procs :
    /\ slots[p].pc = "run" /\ slots[p].kind = "update-days"
    /\ \E i \in 1..Len(slots[p].pf) :
         /\ slots[p].pf[i].st = "fetch"
         /\ CachedEtag(slots[p].feeds[i]) # NoEtag
         /\ slots[p].pf[i].inm = NoEtag

\* No handler and no render is in flight.
IdleState == (\A p \in Procs : slots[p].kind = "idle") /\ calls = {}

\* C8, as stated: in every idle state every key of a repo's rendered map is
\* the id of a release in the repo's cached list, and that release is not
\* older than the cutoff of the current config.
C8_RenderedWithinCurrentWindow ==
  IdleState =>
    \A repo \in DOMAIN cache : \A k \in DOMAIN cache[repo].rendered :
      \E r \in Cached(repo) :
        r.id = k /\ r.published_at >= CutoffOf(now, cfgFile.daysWindow)

\* C8, amended: whenever cleanCache returns, at the end of every refresh and
\* in POST /remove-feed, every cached repo is in the feeds list it was given,
\* every key of the repo's rendered map is the id of a release in the repo's
\* cached list, and no cached release is older than the cutoff it was given.
C8_PrunedWhenCleanCacheReturns ==
  (out.kind \in {"run", "removed"} /\ out.runs[Len(out.runs)].pc = "done") =>
    LET last == out.runs[Len(out.runs)] IN
    \A repo \in DOMAIN cache :
      /\ Includes(last.feeds, repo)
      /\ DOMAIN cache[repo].rendered \subseteq Ids(cache[repo].releases)
      /\ \A r \in Cached(repo) : r.published_at >= last.cutoff

\* A refresh completes into an idle state after its cleanCache dropped the
\* oldest release of a repo that still has rendered html.
C8_Witness ==
  /\ IdleState
  /\ out.kind = "run"
  /\ Widget \in DOMAIN cache
  /\ cache[Widget].rendered # <<>>
  /\ ReleaseOf(Widget, 1) \notin Cached(Widget)
  /\ cache[Widget].etag # NoEtag

\* C9: cleanCache(feeds, cutoff) twice in a row leaves the cache that
\* cleanCache(feeds, cutoff) once leaves.
C9_CleanCacheIdempotent ==
  (probe.op = "cleanCache" /\ probe.n = 2) => cache = probe.post

\* cleanCache ran twice, and its first run deleted a repo and dropped a
\* release and its rendered html from another.
C9_Witness ==
  /\ probe.op = "cleanCache" /\ probe.n = 2
  /\ DOMAIN probe.post # DOMAIN probe.pre
  /\ \E repo \in DOMAIN probe.post :
       /\ Len(probe.post[repo].releases) < Len(probe.pre[repo].releases)
       /\ DOMAIN probe.post[repo].rendered # DOMAIN probe.pre[repo].rendered

\* C10: once POST /remove-feed has removed repo R from the config and from
\* the cache, the cache has no entry for R as long as R is not in the config
\* again.
C10_RemovedStaysRemoved ==
  [][\A repo \in Repos :
       (/\ ~Includes(cfgFile.feeds, repo)
        /\ repo \notin DOMAIN cache
        /\ ~Includes(cfgFile'.feeds, repo)) => repo \notin DOMAIN cache']_vars

\* C11: when a run of updateAllFeeds completes, rateLimitHit is true if a
\* fetch of the run was rate-limited or a render of the run was answered 403
\* with x-ratelimit-remaining 0.
C11_FlagCoversFetchAndRender ==
  out.kind = "run" =>
    \A n \in 1..Len(out.runs) :
      ((\E i \in 1..Len(out.runs[n].pf) : out.runs[n].pf[i].st = "rl")
         \/ out.call.kind = "rl") => rateLimitHit

\* C12: every execution of updateAllFeeds ends with its promise resolved,
\* whatever its fetches, its renders and its config read did: every
\* processFeed returned a result or a placeholder, nothing was thrown to the
\* caller, and lastUpdateTime is the time of the end.
C12_UpdateAllFeedsNeverThrows ==
  out.kind = "run" =>
    /\ lastUpdateTime = now
    /\ \A n \in 1..Len(out.runs) :
         /\ out.runs[n].pc \in {"done", "caught"}
         /\ out.runs[n].pc = "done" =>
              \A i \in 1..Len(out.runs[n].pf) : out.runs[n].pf[i].st \in {"ok", "fail", "rl"}

\* A run ended in the catch block after the config could not be read.
C12_Witness ==
  /\ out.kind = "run"
  /\ out.runs[1].pc = "caught"
  /\ out.runs[1].kind = "timer"

\* C13: whenever the render call of a release fails, by a non-success answer
\* of the markdown endpoint or by the network call throwing, the html cached
\* for the release is its escaped body inside <pre>, and the processFeed of
\* its repo returns its releases, not a placeholder.
C13_RenderFailureFallsBack ==
  (out.kind = "run" /\ out.call.kind \in {"err", "rl", "neterr"}) =>
    /\ out.call.repo \in DOMAIN cache
    /\ out.call.id \in DOMAIN cache[out.call.repo].rendered
    /\ cache[out.call.repo].rendered[out.call.id]
         = "<pre>" \o EscapeHtml(out.call.md) \o "</pre>"
    /\ \A n \in 1..Len(out.runs) : \A i \in 1..Len(out.runs[n].pf) :
         out.runs[n].feeds[i] = out.call.repo => out.runs[n].pf[i].st = "ok"

\* the project of the placeholder processFeed returns from its catch block
\* (the arrow of the source is written -> here)
FailedProject(repo) == "Failed -> " \o repo

\* processFeed number i of the completed run `run` sent no If-None-Match and
\* its fetch was answered with a non-success status that is not a rate limit.
FetchFailed(run, i) ==
  /\ run.pc = "done"
  /\ run.pf[i].st = "fail"
  /\ run.pf[i].inm = NoEtag
  /\ run.pf[i].got = 0

\* C14: when the fetch of a configured repo fails in a refresh with an
\* upstream error that is not a rate limit, the page view that follows the
\* refresh has a "Failed -> repo" entry for the repo.
C14_FailedFetchShown ==
  [][\A repo \in Repos :
       (/\ out.kind = "run"
        /\ \E n \in 1..Len(out.runs) : \E i \in 1..Len(out.runs[n].pf) :
             out.runs[n].feeds[i] = repo /\ FetchFailed(out.runs[n], i)
        /\ Includes(cfgFile.feeds, repo)
        /\ out'.kind = "page")
       => \E j \in 1..Len(out'.page.feedsWithReleases) :
            out'.page.feedsWithReleases[j].project = FailedProject(repo)]_vars

\* C15: hasWarning(body) is true exactly when the lower-cased body contains
\* "breaking change", "breaking changes", "caution" or "important"; an empty
\* body and a missing body are not flagged.
C15_HasWarningIffKeyword ==
  (probe.op = "hasWarning" /\ probe.n = 1) =>
    /\ probe.post <=>
         /\ probe.pre.present
         /\ \E k \in 1..Len(keywords) : StrIncludes(toLowerCase(probe.pre.chars), keywords[k])
    /\ probe.pre.chars = <<>> => ~probe.post

\* "BREAKING chAnge" is flagged.
C15_Witness ==
  /\ probe.op = "hasWarning" /\ probe.n = 1
  /\ probe.pre.chars = <<"B","R","E","A","K","I","N","G"," ","c","h","A","n","g","e">>
  /\ probe.post

\* the releases of the repo's cache entry that a view at the current time
\* and window lists, in cached order
InView(repo) ==
  SelectSeq(IF repo \in DOMAIN cache THEN cache[repo].releases ELSE <<>>,
            LAMBDA release : isValidRelease(release, CutoffOf(now, cfgFile.daysWindow)))

Titles(releases) == [j \in 1..Len(releases) |-> TitleOf(releases[j])]

ShownTitles(shown) == [j \in 1..Len(shown) |-> shown[j].title]

\* C16: in every page view, within each repo all flagged releases precede
\* all unflagged ones, each group in its cached order, and the repos are
\* ordered by breakingCount descending, ties by releaseCount descending.
C16_ViewOrder ==
  out.kind = "page" =>
    /\ \A i \in 1..Len(out.view) :
         LET shown == out.view[i].releases
             inView == InView(out.view[i].project)
         IN  /\ \A j, k \in 1..Len(shown) : (j < k /\ shown[k].flagged) => shown[j].flagged
             /\ ShownTitles(SelectSeq(shown, LAMBDA release : release.flagged))
                  = Titles(SelectSeq(inView, LAMBDA release : hasWarning(release.body)))
             /\ ShownTitles(SelectSeq(shown, LAMBDA release : ~release.flagged))
                  = Titles(SelectSeq(inView, LAMBDA release : ~hasWarning(release.body)))
    /\ \A i, j \in 1..Len(out.view) :
         i < j =>
           \/ out.view[i].breakingCount > out.view[j].breakingCount
           \/ /\ out.view[i].breakingCount = out.view[j].breakingCount
              /\ out.view[i].releaseCount >= out.view[j].releaseCount

\* A view that lists the repo configured second first, and whose first repo
\* has a flagged release cached after an unflagged one.
C16_Witness ==
  /\ out.kind = "page"
  /\ Len(out.view) = 2
  /\ out.view[1].project = cfgFile.feeds[2]
  /\ out.view[1].releases # out.page.feedsWithReleases[1].releases
  /\ out.view[1].breakingCount = 2

BeforeFirstOld(up, cutoff) ==
  LET old == {i \in 1..Len(up) : up[i].published_at < cutoff}
  IN  IF old = {} THEN up
      ELSE SubSeq(up, 1, (CHOOSE i \in old : \A j \in old : i <= j) - 1)

\* C18: for every upstream sequence given newest first and served in pages,
\* the paginated fetchReleases, when every page it asks for is served, returns
\* in upstream order exactly the releases that are neither draft nor
\* prerelease and come before the first release older than the cutoff, none
\* of them published before the cutoff.
C18_PagedFetchResult ==
  (probe.op = "fetchReleasesPaged" /\ probe.state = "returned" /\ ~probe.rateLimited) =>
    /\ probe.allReleases
         = SelectSeq(BeforeFirstOld(probe.upstream, probe.cutoff),
                     LAMBDA r : ~r.draft /\ ~r.prerelease)
    /\ \A i \in 1..Len(probe.allReleases) : probe.allReleases[i].published_at >= probe.cutoff

\* A call that skipped a draft on its first page, took a release from its
\* second page and stopped at the release after it.
C18_Witness ==
  /\ probe.op = "fetchReleasesPaged" /\ probe.state = "returned" /\ ~probe.rateLimited
  /\ probe.page = 2
  /\ Len(probe.upstream) = 4
  /\ probe.upstream[2].draft
  /\ probe.upstream[4].published_at < probe.cutoff
  /\ ~probe.upstream[4].draft /\ ~probe.upstream[4].prerelease
  /\ Len(probe.allReleases) = 2
  /\ probe.allReleases[2].id = 3

\* C19: in the p-limit server at most 5 per-repo tasks are in flight at any
\* moment, whatever the number of configured repos and whichever of the
\* timer refresh, the POST /update-days refresh and the POST /add-repo
\* refresh overlap; tasks wait only while 5 are in flight.
C19_AtMostFiveInFlight ==
  probe.op = "refreshReleases" =>
    /\ ActiveCount(probe) <= 5
    /\ probe.queue # <<>> => ActiveCount(probe) = 5

\* The three refreshes overlap over more than 5 repos: 5 tasks run and
\* tasks of each refresh wait.
C19_Witness ==
  /\ probe.op = "refreshReleases"
  /\ probe.inFlight = Refreshes
  /\ probe.repos > 5
  /\ ActiveCount(probe) = 5
  /\ \A refresh \in Refreshes : \E i \in 1..Len(probe.queue) : probe.queue[i] = refresh

\* C20: the server listens, and the timer fires, only after the first
\* updateAllFeeds has completed: until then no request is served and no
\* handler other than the startup refresh runs, and once the server listens
\* the startup refresh is over and lastUpdateTime is set.
C20_ListensAfterFirstRefresh ==
  /\ ~listening =>
       /\ lastUpdateTime = 0
       /\ \A p \in Procs : slots[p].kind \in {"idle", "startup"}
       /\ out.kind \notin {"page", "removed"}
       /\ out.kind = "run" => \A n \in 1..Len(out.runs) : out.runs[n].kind # "startup"
  /\ listening =>
       /\ lastUpdateTime # 0
       /\ \A p \in Procs : slots[p].kind # "startup"

\* The startup refresh has just completed and the server listens.
C20_Witness ==
  /\ listening
  /\ out.kind = "run"
  /\ out.runs[1].kind = "startup"
  /\ out.runs[1].pc = "done"

\* C21: POST /add-feed of a repo whose existence check is not answered 200
\* is rejected: from the request to its error page the persisted config and
\* the cache stay as they are and the handler starts no refresh; a repo that
\* GitHub does not have never gets into the config or the cache.
C21_UnknownRepoRejected ==
  /\ [](~Includes(cfgFile.feeds, Ghost) /\ Ghost \notin DOMAIN cache)
  /\ [][\A p \in Procs :
          (/\ slots[p].kind = "add-feed"
           /\ slots'[p] # slots[p]
           /\ \/ slots[p].pc = "exists" /\ slots'[p].pc = "home"
              \/ slots[p].pc = "home" /\ slots[p].error = "GitHub repository not found")
          => /\ cfgFile' = cfgFile
             /\ cache' = cache
             /\ calls' = calls
             /\ slots'[p].pc \in {"home", "idle"}]_vars

\* POST /add-feed is about to answer "GitHub repository not found" while
\* the config and the cache hold a repo.
C21_Witness ==
  /\ \E p \in Procs :
       /\ slots[p].kind = "add-feed"
       /\ slots[p].pc = "home"
       /\ slots[p].error = "GitHub repository not found"
  /\ cfgFile.feeds # <<>>
  /\ cache # <<>>

\* C22: after any add-feed and remove-feed requests, handled concurrently
\* or not, with the config file there or not yet, the persisted repo list
\* holds no repo twice.
C22_NoDuplicateFeeds ==
  (probe.op = "config" /\ probe.file.exists) =>
    \A i, j \in 1..Len(probe.file.cfg.feeds) :
      probe.file.cfg.feeds[i] = probe.file.cfg.feeds[j] => i = j

\* C23: when two requests that change the config have both completed, the
\* persisted config has the effect of each: the repo an add-feed added (unless
\* the other request removed that repo), no repo a remove-feed removed
\* (unless the other added it), the window of an update-days (unless the
\* other is an update-days too) and the token of an update-token.
C23_BothChangesKept ==
  (probe.op = "config" /\ \A p \in Procs : probe.req[p].pc = "done") =>
    \A p, q \in Procs :
      p # q =>
        LET r == probe.req[p].req
            o == probe.req[q].req
            config == probe.file.cfg
        IN  /\ (r.kind = "add-feed" /\ ~(o.kind = "remove-feed" /\ o.repo = r.repo))
                 => Includes(config.feeds, r.repo)
            /\ (r.kind = "remove-feed" /\ ~(o.kind = "add-feed" /\ o.repo = r.repo))
                 => ~Includes(config.feeds, r.repo)
            /\ (r.kind = "update-days" /\ o.kind # "update-days")
                 => config.daysWindow = r.days
            /\ r.kind = "update-token" => config.githubToken = r.token

\* C24: the URL https://github.com/owner/name, with or without .git or a
\* further path after it, and the bare slug owner/name give the same slug
\* owner/name (so the one is a duplicate of the other), and a slug is
\* normalised to itself.
C24_UrlAndSlugAgree ==
  (/\ probe.op = "slug" /\ probe.n = 1
   /\ \/ probe.raw = probe.slug
      \/ \E suf \in {<<>>, <<".git">>, <<"/", "releases">>, <<"/", "tree", "/", "main">>} :
           probe.raw = HttpsGithub \o probe.slug \o suf)
  => probe.post = probe.slug

\* C25: the end of a refresh, with the cleanCache that uses the repo list
\* and the cutoff the refresh read when it started, removes from the cache no
\* entry of a configured repo and no release that is valid under the current
\* config, also when the config changed while the refresh was in flight.
C25_LateRefreshHarmless ==
  [][out'.kind = "run" =>
       \A repo \in DOMAIN cache :
         Includes(cfgFile.feeds, repo) =>
           /\ repo \in DOMAIN cache'
           /\ \A r \in Cached(repo) :
                isValidRelease(r, CutoffOf(now, cfgFile.daysWindow)) =>
                  \E i \in 1..Len(cache'[repo].releases) : cache'[repo].releases[i] = r]_vars

\* C26: in the guarded server at most one body of updateAllFeeds executes at
\* any time, and exactly while isUpdateRunning is true; a call that arrives
\* while isUpdateRunning is true is skipped: it starts no execution and
\* leaves the executing one as it is.
C26_OneBodyAtATime ==
  /\ [](probe.op = "guarded" =>
          /\ \A p, q \in Procs : (probe.body[p].pc # "idle" /\ probe.body[q].pc # "idle") => p = q
          /\ probe.isUpdateRunning <=> \E p \in Procs : probe.body[p].pc # "idle")
  /\ [][(probe.isUpdateRunning /\ probe'.last \in {"skipped", "started"}) =>
          (probe'.last = "skipped" /\ probe'.body = probe.body /\ probe'.isUpdateRunning)]_vars

\* A call was skipped while the executing body awaits a render.
C26_Witness ==
  /\ probe.op = "guarded"
  /\ probe.last = "skipped"
  /\ \E p \in Procs : \E i \in 1..Len(probe.body[p].tasks) : probe.body[p].tasks[i] = "render"

\* C27: in the guarded server every refresh that set isUpdateRunning to true
\* sets it back to false once its fetches and renders have settled, whether
\* they succeeded or failed.
C27_FlagComesBack ==
  (probe.op = "guarded" /\ probe.isUpdateRunning) ~> ~probe.isUpdateRunning

\* A refresh whose readConfig threw has ended and the flag is false.
C27_Witness ==
  /\ probe.op = "guarded"
  /\ probe.last = "threw"
  /\ ~probe.isUpdateRunning

\* C28: after a fetchReleases answered 200 the repo's cache entry holds
\* exactly the release list and the etag of the response, every html that
\* was cached when the response arrived, for a release id of the new list,
\* is still cached unchanged, and the entries of other repos are untouched.
C28_UpsertKeepsRendered ==
  (probe.op = "fetchReleases" /\ probe.n = 2 /\ probe.res.status = 200) =>
    /\ probe.threw = ""
    /\ probe.repo \in DOMAIN cache
    /\ cache[probe.repo].etag = probe.res.etag
    /\ cache[probe.repo].releases = probe.res.releases
    /\ probe.releases = probe.res.releases
    /\ probe.repo \in DOMAIN probe.pre =>
         \A id \in DOMAIN probe.pre[probe.repo].rendered :
           id \in Ids(probe.res.releases) =>
             /\ id \in DOMAIN cache[probe.repo].rendered
             /\ cache[probe.repo].rendered[id] = probe.pre[probe.repo].rendered[id]
    /\ \A repo \in DOMAIN probe.pre \ {probe.repo} :
         repo \in DOMAIN cache /\ cache[repo] = probe.pre[repo]

\* A 200 response replaced the release list and the etag of an entry that
\* held html of a release of the new list.
C28_Witness ==
  /\ probe.op = "fetchReleases" /\ probe.n = 2 /\ probe.res.status = 200
  /\ probe.repo \in DOMAIN probe.pre
  /\ probe.pre[probe.repo].releases # probe.res.releases
  /\ probe.pre[probe.repo].etag # probe.res.etag
  /\ \E id \in DOMAIN probe.pre[probe.repo].rendered :
       /\ id \in Ids(probe.res.releases)
       /\ probe.pre[probe.repo].rendered[id] # NoHtml

\* C29: a refresh issues a render call for a release only if the release is
\* in the repo's fetched list, valid under the cutoff of the run that issues
\* it (in the window, no draft, no prerelease), has a non-empty body, and no
\* html is cached for it; so a release whose html is cached is not rendered
\* again while the html stays cached.
C29_RendersOnlyWhatLacksHtml ==
  [][\A c \in calls' :
       (c.live /\ c \notin calls) =>
         /\ slots[c.by].pc = "run"
         /\ c.md # ""
         /\ c.repo \in DOMAIN cache'
         /\ \E j \in 1..Len(cache'[c.repo].releases) :
              LET release == cache'[c.repo].releases[j]
              IN  /\ release.id = c.id
                  /\ release.body = c.md
                  /\ ~release.draft
                  /\ ~release.prerelease
                  /\ release.published_at >= slots[c.by].cutoff
         /\ (c.repo \in DOMAIN cache /\ c.id \in DOMAIN cache[c.repo].rendered) =>
              cache[c.repo].rendered[c.id] = NoHtml]_vars

\* A refresh found html cached for one valid release of a repo, and issued a
\* render call for another one of the same repo.
C29_Witness ==
  \E c \in calls :
    /\ c.live
    /\ c.repo \in DOMAIN cache
    /\ \E id \in DOMAIN cache[c.repo].rendered :
         /\ id # c.id
         /\ cache[c.repo].rendered[id] # NoHtml
         /\ \E j \in 1..Len(cache[c.repo].releases) :
              /\ cache[c.repo].releases[j].id = id
              /\ isValidRelease(cache[c.repo].releases[j], slots[c.by].cutoff)

\* C30: the paginated fetchReleases requests a further page only after a
\* page that is not empty and holds no release published before the cutoff,
\* drafts and prereleases included.
C30_StopsAtFirstOldRelease ==
  [][(probe.op = "fetchReleasesPaged" /\ probe'.page > probe.page) =>
       LET releases == GitHubPage(probe.upstream, probe.page)
       IN  /\ releases # <<>>
           /\ \A j \in 1..Len(releases) : releases[j].published_at >= probe.cutoff]_vars

\* C31: a fetchReleases that is answered with a rate-limit 403 or any other
\* non-success status throws and leaves the cache, the repo's entry with its
\* etag, release list and rendered html included, as it was when the
\* response arrived.
C31_FailedFetchKeepsEntry ==
  (probe.op = "fetchReleases" /\ probe.n = 2 /\ probe.res.status \notin {200, 304}) =>
    /\ probe.threw = IF probe.res.status = 403 /\ probe.res.remaining = "0"
                       THEN "rateLimited" ELSE "error"
    /\ cache = probe.pre
    /\ probe.repo \in DOMAIN probe.pre =>
         /\ cache[probe.repo].etag = probe.pre[probe.repo].etag
         /\ cache[probe.repo].releases = probe.pre[probe.repo].releases
         /\ cache[probe.repo].rendered = probe.pre[probe.repo].rendered

\* A rate-limited fetch of a repo whose entry holds releases and html.
C31_Witness ==
  /\ probe.op = "fetchReleases" /\ probe.n = 2
  /\ probe.res.status = 403 /\ probe.res.remaining = "0"
  /\ probe.repo \in DOMAIN cache
  /\ cache[probe.repo].releases # <<>>
  /\ \E id \in DOMAIN cache[probe.repo].rendered : cache[probe.repo].rendered[id] # NoHtml

\* C32: a promise_<id> marker is in a repo's rendered map only while the
\* render that fetchCache started for it is pending: once the render has
\* settled, fulfilled or rejected, the marker is gone.
C32_MarkerGoneWhenSettled ==
  \A repo \in DOMAIN cache : \A id \in cache[repo].promise :
    \E c \in calls : c.repo = repo /\ c.id = id /\ c.live

\* C33: in the p-limit server a fetch that is answered with an exhausted
\* rate limit is reported to refreshReleases as a failure: the repo joins the
\* errors of the refresh and the repo's entry in cachedData stays as it was.
C33_RateLimitedKeepsEntry ==
  [][(probe.op = "plimit" /\ probe'.last.op = "fetched" /\ probe'.last.kind = "rl") =>
       /\ \A i \in 1..Len(probe.cachedData) :
            probe.cachedData[i].repo = probe'.last.repo =>
              \E j \in 1..Len(probe'.cachedData) : probe'.cachedData[j] = probe.cachedData[i]
       /\ \/ probe'.last.repo \in probe'.run[probe'.last.by].errors
          \/ probe'.last.repo \in probe'.lastErrors]_vars

\* C34: in the p-limit server a POST /add-repo whose fetch is answered 404
\* or with another upstream error neither appends the repo to config.repos
\* nor saves the config.
C34_FailedAddRejected ==
  [][(/\ probe.op = "plimit"
      /\ probe'.last.op = "fetched"
      /\ probe'.last.kind \in {"404", "err"}
      /\ probe.run[probe'.last.by].kind = "add-repo") =>
       /\ probe'.config.repos = probe.config.repos
       /\ probe'.file = probe.file]_vars

\* C35: in the p-limit server, when no handler is in flight, cachedData holds
\* no entry of a repo that is not in config.repos: a removed repo's entry is
\* gone also when a refresh covering it was in flight at the removal.
C35_RemovedRepoNotCached ==
  (probe.op = "plimit" /\ \A p \in Procs : probe.run[p].kind = "idle") =>
    \A i \in 1..Len(probe.cachedData) : Includes(probe.config.repos, probe.cachedData[i].repo)

\* C38: in the p-limit server rateLimited, once true, is true in every later
\* state: no refresh, config change or token change sets it back to false.
C38_RateLimitedSticks ==
  /\ [][(probe.op = "plimit" /\ probe.rateLimited) => probe'.rateLimited]_vars
  /\ [][(probe.op = "plimit" /\ probe'.last.op = "fetched" /\ probe'.last.kind = "rl") =>
          probe'.rateLimited]_vars

\* rateLimited is true after a later fetch was answered in full, under a
\* changed window and token.
C38_Witness ==
  /\ probe.op = "plimit"
  /\ probe.rateLimited
  /\ probe.last.op = "fetched" /\ probe.last.kind = "ok"
  /\ probe.config.daysWindow = MaxDays
  /\ probe.config.githubToken # ""
  /\ probe.cachedData # <<>>

\* C36: in the paginated etag variant, after a fetchReleases that returned
\* from 200 responses the repo's cache entry holds the etag upstream sent.
C36_EtagStored ==
  (probe.op = "fetchReleasesEtag" /\ probe.state = "returned" /\ probe.status = 200) =>
    /\ Widget \in DOMAIN probe.cache
    /\ probe.cache[Widget].etag = probe.etag

\* C37: a page view built by GET / changes no cache entry, changes neither
\* rateLimitHit nor lastUpdateTime, and starts no request to the releases or
\* markdown endpoints: the calls in flight and the refreshes in flight are
\* what they were.
C37_PageViewReadsOnly ==
  [][(out'.kind = "page" /\ out'.page.errorMessage = "") =>
       /\ cache' = cache
       /\ rateLimitHit' = rateLimitHit
       /\ lastUpdateTime' = lastUpdateTime
       /\ calls' = calls
       /\ slots' = slots]_vars

\* A page view built while a render is in flight and rateLimitHit is set.
C37_Witness ==
  /\ out.kind = "page" /\ out.page.errorMessage = ""
  /\ out.page.rateLimitHit
  /\ out.page.feedsWithReleases # <<>>
  /\ calls # {}

====
